---------------------------- MODULE Spec2Model ----------------------------
(***************************************************************************)
(* A model of the bourne JSON codec: the escape codec (format.rs,          *)
(* parse.rs), the recursive-descent parser (parse.rs), the serializer      *)
(* (format.rs) and the value model (lib.rs).                               *)
(*                                                                         *)
(* A Rust String / &str is a sequence of Unicode scalar values (code       *)
(* points, as integers).  The parser works on the UTF-8 bytes of its       *)
(* source, so Parser.source is a sequence of bytes and Parser.index is a   *)
(* 0-based byte offset into it.                                            *)
(***************************************************************************)
EXTENDS Integers, Sequences, FiniteSets, TLC

VARIABLES
    pc,         \* which operation ran last
    value,      \* the Value handed to the serializer
    source,     \* the text handed to Value::from_str
    result,     \* what Value::from_str(source) returned
    rendered,   \* what to_string returned for the parsed value
    twin,       \* a second text handed to Value::from_str
    twinResult, \* what Value::from_str(twin) returned
    members,    \* the key/value occurrences written into an object text
    string,     \* the string handed to escape_string / unescape_string
    escaped,    \* what escape_string(string) returned
    unescaped,  \* what unescape_string returned
    receiver,   \* the Value a mutating or indexing operation was applied to, afterwards
    argument,   \* the index, key or element handed to that operation
    outcome,    \* what that operation returned
    measured,   \* what measure_escaped_string returned
    input,      \* Parser.source, as its UTF-8 bytes
    cursor,     \* Parser.index, a byte offset into input
    frames      \* the scanning loops of the parser that are active, innermost last

accessVars == <<receiver, argument, outcome, measured>>

parserVars == <<input, cursor, frames>>

vars == <<pc, value, source, result, rendered, twin, twinResult, members, string,
          escaped, unescaped, receiver, argument, outcome, measured, input, cursor,
          frames>>

(***************************************************************************)
(* Characters the code names.                                              *)
(***************************************************************************)
NUL == 0
BS == 8
TAB == 9
LF == 10
FF == 12
CR == 13
US == 31
SPACE == 32
QUOTE == 34
PLUS == 43
COMMA == 44
MINUS == 45
DOT == 46
SLASH == 47
COLON == 58
LBRACKET == 91
BACKSLASH == 92
RBRACKET == 93
LBRACE == 123
RBRACE == 125
Ch0 == 48
Ch9 == 57
ChA == 65
ChE == 69
ChF == 70
Cha == 97
Chb == 98
Che == 101
Chf == 102
Chn == 110
Chr == 114
Cht == 116
Chu == 117

None == [some |-> FALSE]
Some(x) == [some |-> TRUE, v |-> x]

Ok(x) == [ok |-> TRUE, val |-> x]
\* A ParseError without payload (error.rs).
Err(kind) == [ok |-> FALSE, err |-> kind]
\* A ParseError carrying a byte offset (error.rs).
ErrAt(kind, offset) == [ok |-> FALSE, err |-> kind, at |-> offset]
\* A Rust panic (slice index not on a char boundary, index out of range).
Panic == [ok |-> FALSE, err |-> "panic"]

NoResult == [ok |-> FALSE, err |-> "not run"]

RECURSIVE Concat(_)
\* The concatenation of a sequence of sequences.
Concat(ss) == IF ss = <<>> THEN <<>> ELSE Head(ss) \o Concat(Tail(ss))

(***************************************************************************)
(* UTF-8: char::len_utf8, the bytes of a str, and str.chars().next().      *)
(***************************************************************************)
len_utf8(c) ==
    IF c < 128 THEN 1 ELSE IF c < 2048 THEN 2 ELSE IF c < 65536 THEN 3 ELSE 4

encode_utf8(c) ==
    CASE c < 128 -> <<c>>
      [] c >= 128 /\ c < 2048 -> <<192 + (c \div 64), 128 + (c % 64)>>
      [] c >= 2048 /\ c < 65536 ->
            <<224 + (c \div 4096), 128 + ((c \div 64) % 64), 128 + (c % 64)>>
      [] OTHER ->
            <<240 + (c \div 262144), 128 + ((c \div 4096) % 64),
              128 + ((c \div 64) % 64), 128 + (c % 64)>>

\* str::as_bytes: the UTF-8 bytes of a string.
as_bytes(s) == Concat([i \in 1..Len(s) |-> encode_utf8(s[i])])

\* A byte offset is a char boundary of the bytes when it is 0, the length,
\* or the offset of a byte that is not a continuation byte (10xxxxxx).
is_char_boundary(bytes, off) ==
    \/ off = 0
    \/ off = Len(bytes)
    \/ off < Len(bytes) /\ ~(bytes[off + 1] >= 128 /\ bytes[off + 1] < 192)

\* The char that starts at byte offset off (a char boundary, off < length).
char_at(bytes, off) ==
    LET b0 == bytes[off + 1]
        cont(k) == bytes[off + 1 + k] % 64
    IN  CASE b0 < 128 -> b0
          [] b0 >= 192 /\ b0 < 224 -> (b0 % 32) * 64 + cont(1)
          [] b0 >= 224 /\ b0 < 240 -> (b0 % 16) * 4096 + cont(1) * 64 + cont(2)
          [] OTHER -> (b0 % 8) * 262144 + cont(1) * 4096 + cont(2) * 64 + cont(3)

(***************************************************************************)
(* Escape codec.                                                           *)
(***************************************************************************)
\* parse.rs hex_value: the value of a hexadecimal digit, or None.
hex_value(chr) ==
    IF chr >= Ch0 /\ chr <= Ch9 THEN Some(chr - Ch0)
    ELSE IF chr >= Cha /\ chr <= Chf THEN Some(chr - Cha + 10)
    ELSE IF chr >= ChA /\ chr <= ChF THEN Some(chr - ChA + 10)
    ELSE None

\* char::from_u32 without the surrogate check.
from_u32_unchecked(hex) == Some(hex)

\* char::from_u32 on a u16: None exactly for the surrogates.
from_u32(hex) == IF hex >= 55296 /\ hex <= 57343 THEN None ELSE Some(hex)

HEX_CHARS == <<48, 49, 50, 51, 52, 53, 54, 55, 56, 57, 65, 66, 67, 68, 69, 70>>

RECURSIVE Pow2(_)
Pow2(n) == IF n = 0 THEN 1 ELSE 2 * Pow2(n - 1)

\* hex_char with the nibble slots exchanged.
hex_char_swapped(val, slot) ==
    LET shift == (1 - slot) * 4
        index == (val \div Pow2(shift)) % 16
    IN  HEX_CHARS[index + 1]

\* format.rs hex_char: the hex digit of value's 4-bit slot.
hex_char(val, slot) ==
    LET shift == slot * 4
        index == (val \div Pow2(shift)) % 16
    IN  HEX_CHARS[index + 1]

\* format.rs write_escaped_string, one char.
escape_char(c) ==
    CASE c = BACKSLASH -> <<BACKSLASH, BACKSLASH>>
      [] c = QUOTE -> <<BACKSLASH, QUOTE>>
      [] c = FF -> <<BACKSLASH, Chf>>
      [] c = BS -> <<BACKSLASH, Chb>>
      [] c = LF -> <<BACKSLASH, Chn>>
      [] c = CR -> <<BACKSLASH, Chr>>
      [] c = TAB -> <<BACKSLASH, Cht>>
      [] c \notin {BACKSLASH, QUOTE, FF, BS, LF, CR, TAB} /\ c >= NUL /\ c <= US ->
            <<BACKSLASH, Chu, Ch0, Ch0, hex_char(c, 1), hex_char(c, 0)>>
      [] OTHER -> <<c>>

\* format.rs write_escaped_string / escape_string.
escape_string(s) == Concat([i \in 1..Len(s) |-> escape_char(s[i])])

\* A measure that counts every unescaped char as one byte.
measure_char_ascii(c) ==
    CASE c \in {BACKSLASH, QUOTE, FF, BS, LF, CR, TAB} -> 2
      [] c \notin {BACKSLASH, QUOTE, FF, BS, LF, CR, TAB} /\ c >= NUL /\ c <= US -> 6
      [] OTHER -> 1

\* format.rs measure_escaped_string, one char.
measure_char(c) ==
    CASE c \in {BACKSLASH, QUOTE, FF, BS, LF, CR, TAB} -> 2
      [] c \notin {BACKSLASH, QUOTE, FF, BS, LF, CR, TAB} /\ c >= NUL /\ c <= US -> 6
      [] OTHER -> len_utf8(c)

RECURSIVE measure_escaped_string(_)
measure_escaped_string(s) ==
    IF s = <<>> THEN 0 ELSE measure_char(Head(s)) + measure_escaped_string(Tail(s))

RECURSIVE BitOr(_, _)
\* Bitwise or of two naturals.
BitOr(a, b) ==
    IF a = 0 THEN b
    ELSE IF b = 0 THEN a
    ELSE (IF (a % 2) = 1 \/ (b % 2) = 1 THEN 1 ELSE 0) + 2 * BitOr(a \div 2, b \div 2)

\* The loop of the \u branch (unescape_string and parse_string): for i in 0..4,
\* hex |= value; if i < 3, hex <<= 4, on a u16.
RECURSIVE hex_accumulate(_, _, _)
hex_accumulate(hex, digits, i) ==
    IF i > 3 THEN hex
    ELSE LET ored == BitOr(hex, digits[i + 1])
             shifted == IF i < 3 THEN (ored * 16) % 65536 ELSE ored
         IN  hex_accumulate(shifted, digits, i + 1)

\* parse.rs unescape_string: the char a backslash followed by c stands for,
\* for every c but 'u'.
unescape_simple(c) ==
    CASE c = Chf -> FF
      [] c = Chb -> BS
      [] c = Chn -> LF
      [] c = Chr -> CR
      [] c = Cht -> TAB
      [] OTHER -> c

\* parse.rs unescape_string, from char position i (1-based) with the buffer so far.
RECURSIVE unescape_from(_, _, _)
unescape_from(s, i, buffer) ==
    IF i > Len(s) THEN Ok(buffer)
    ELSE IF s[i] # BACKSLASH THEN unescape_from(s, i + 1, Append(buffer, s[i]))
    ELSE IF i + 1 > Len(s) THEN Err("UnexpectedEOF")
    ELSE IF s[i + 1] # Chu
    THEN unescape_from(s, i + 2, Append(buffer, unescape_simple(s[i + 1])))
    ELSE LET avail == Len(s) - (i + 1)
             n == IF avail < 4 THEN avail ELSE 4
             digs == [k \in 1..n |-> hex_value(s[i + 1 + k])]
         IN  IF \E k \in 1..n : ~digs[k].some THEN Err("InvalidHex")
             ELSE IF n < 4 THEN Err("UnexpectedEOF")
             ELSE LET hex == hex_accumulate(0, [k \in 1..4 |-> digs[k].v], 0)
                      res == from_u32(hex)
                  IN  IF ~res.some THEN Err("InvalidEscapeSequence")
                      ELSE unescape_from(s, i + 6, Append(buffer, res.v))

\* parse.rs unescape_string.
unescape_string(s) == unescape_from(s, 1, <<>>)

(***************************************************************************)
(* f64.  A finite f64 is written as its shortest round-trip decimal, the   *)
(* digits Rust's Display prints for it: digits d1..dn (d1 # 0, dn # 0)     *)
(* and exp with value 0.d1..dn * 10^exp; zero has no digits.  Two finite   *)
(* f64 are the same float exactly when sign, digits and exp agree.         *)
(***************************************************************************)
F64Nan == [class |-> "nan"]
F64Inf(neg) == [class |-> "inf", neg |-> neg]
F64Finite(neg, digits, exp) ==
    [class |-> "finite", neg |-> neg, digits |-> digits, exp |-> exp]

IsDigit(b) == b >= Ch0 /\ b <= Ch9

MinOf(S) == CHOOSE x \in S : \A y \in S : x <= y
MaxOf(S) == 0 - MinOf({0 - x : x \in S})

\* The digit at position i, 0 outside the sequence.
DigitAt(d, i) == IF i >= 1 /\ i <= Len(d) THEN d[i] ELSE 0

StripLeadingZeros(d) ==
    IF \A i \in 1..Len(d) : d[i] = 0 THEN <<>>
    ELSE SubSeq(d, MinOf({i \in 1..Len(d) : d[i] # 0}), Len(d))

StripTrailingZeros(d) ==
    IF \A i \in 1..Len(d) : d[i] = 0 THEN <<>>
    ELSE SubSeq(d, 1, MaxOf({i \in 1..Len(d) : d[i] # 0}))

FracCmpAt(a, b, i) == IF DigitAt(a, i) < DigitAt(b, i) THEN -1 ELSE 1

FracCmpUpTo(a, b, n) ==
    IF \A i \in 1..n : DigitAt(a, i) = DigitAt(b, i) THEN 0
    ELSE FracCmpAt(a, b, MinOf({i \in 1..n : DigitAt(a, i) # DigitAt(b, i)}))

\* Lexicographic comparison of two digit sequences read as 0.d1d2...: -1, 0, 1.
FracCmp(a, b) == FracCmpUpTo(a, b, IF Len(a) >= Len(b) THEN Len(a) ELSE Len(b))

\* 2^1024 - 2^970 = 0.1797693134862315807937...e309: decimals from here on
\* round to infinity.
F64OverflowDigits == <<1, 7, 9, 7, 6, 9, 3, 1, 3, 4, 8, 6, 2, 3, 1, 5, 8, 0, 7, 9, 3, 7>>
F64OverflowExp == 309
\* 2^-1075 = 0.2470328229206232720882...e-323: decimals up to here round to zero.
F64UnderflowDigits == <<2, 4, 7, 0, 3, 2, 8, 2, 2, 9, 2, 0, 6, 2, 3, 2, 7, 2, 0, 8, 8, 2>>
F64UnderflowExp == -323
\* More significant digits than this do not all survive the 53-bit mantissa.
F64ExactDigits == 15

(***************************************************************************)
(* Naturals too wide for 32-bit TLC integers, as decimal digit             *)
(* sequences, most significant digit first, <<>> for 0.                    *)
(***************************************************************************)
\* -1, 0, 1 as a < b, a = b, a > b.
DecCmp(a, b) ==
    IF Len(a) < Len(b) THEN -1
    ELSE IF Len(a) > Len(b) THEN 1
    ELSE FracCmp(a, b)

\* d \div 2 and d % 2: each digit takes the parity of the digit before it.
DecHalf(d) ==
    StripLeadingZeros([i \in 1..Len(d) |-> (10 * (DigitAt(d, i - 1) % 2) + d[i]) \div 2])
DecParity(d) == DigitAt(d, Len(d)) % 2

\* 2 * d: each digit takes a carry when the digit after it is 5 or more.
DecDouble(d) ==
    (IF DigitAt(d, 1) >= 5 THEN <<1>> ELSE <<>>)
    \o [i \in 1..Len(d) |-> ((2 * d[i]) % 10) + (IF DigitAt(d, i + 1) >= 5 THEN 1 ELSE 0)]

\* d * 2^n.
RECURSIVE DecShl(_, _)
DecShl(d, n) == IF n = 0 \/ d = <<>> THEN d ELSE DecShl(DecDouble(d), n - 1)

\* The digit j places from the right end, 1 for the last.
RDigit(d, j) == DigitAt(d, Len(d) - j + 1)

\* Does a + b carry into place j: the nearest place below j whose digits do
\* not sum to 9 sums to 10 or more.
AddCarryAt(a, b, k) == RDigit(a, k) + RDigit(b, k) >= 10
AddCarryInto(a, b, j) ==
    /\ \E k \in 1..(j - 1) : RDigit(a, k) + RDigit(b, k) # 9
    /\ AddCarryAt(a, b, MaxOf({k \in 1..(j - 1) : RDigit(a, k) + RDigit(b, k) # 9}))

AddDigit(a, b, j) ==
    (RDigit(a, j) + RDigit(b, j) + (IF AddCarryInto(a, b, j) THEN 1 ELSE 0)) % 10

DecAddSized(a, b, n) ==
    (IF AddCarryInto(a, b, n + 1) THEN <<1>> ELSE <<>>)
    \o [i \in 1..n |-> AddDigit(a, b, n - i + 1)]

DecAdd(a, b) == DecAddSized(a, b, IF Len(a) >= Len(b) THEN Len(a) ELSE Len(b))

\* Does a - b borrow from place j: the nearest place below j where the
\* digits differ has the smaller digit in a.
SubBorrowAt(a, b, k) == RDigit(a, k) < RDigit(b, k)
SubBorrowFrom(a, b, j) ==
    /\ \E k \in 1..(j - 1) : RDigit(a, k) # RDigit(b, k)
    /\ SubBorrowAt(a, b, MaxOf({k \in 1..(j - 1) : RDigit(a, k) # RDigit(b, k)}))

SubDigit(a, b, j) ==
    (RDigit(a, j) + 10 - RDigit(b, j) - (IF SubBorrowFrom(a, b, j) THEN 1 ELSE 0)) % 10

\* a - b for a >= b.
DecSub(a, b) == StripLeadingZeros([i \in 1..Len(a) |-> SubDigit(a, b, Len(a) - i + 1)])

Zeros(n) == [i \in 1..n |-> 0]

\* 2^52 and 2^53: an f64 mantissa has 53 bits.
TwoPow52 == <<4, 5, 0, 3, 5, 9, 9, 6, 2, 7, 3, 7, 0, 4, 9, 6>>
TwoPow53 == <<9, 0, 0, 7, 1, 9, 9, 2, 5, 4, 7, 4, 0, 9, 9, 2>>

\* Halve q until it fits 53 bits: the mantissa m, the binary exponent e, the
\* last bit shifted out and whether any bit before it was set.
RECURSIVE ShiftToMantissa(_, _, _, _)
ShiftToMantissa(q, e, round, sticky) ==
    IF DecCmp(q, TwoPow53) < 0
    THEN [m |-> q, e |-> e, round |-> round, sticky |-> sticky]
    ELSE ShiftToMantissa(DecHalf(q), e + 1, DecParity(q), sticky \/ round = 1)

\* The mantissa rounded to nearest, ties to even (core::num::dec2flt).
RoundMantissa(s) ==
    IF s.round = 1 /\ (s.sticky \/ (s.m[Len(s.m)] % 2) = 1)
    THEN DecAdd(s.m, <<1>>)
    ELSE s.m

\* Four times the bounds of the decimals that read back as m * 2^e, v4 being
\* 4 * m * 2^e: half a gap on each side, the gap below a power of two being
\* half as wide; the bounds belong to the interval when m is even.
RoundingInterval(v4, m, e) ==
    [ lo4 |-> DecSub(v4, DecShl(<<1>>, IF m = TwoPow52 THEN e ELSE e + 1)),
      hi4 |-> DecAdd(v4, DecShl(<<1>>, IF m = TwoPow53 THEN e + 2 ELSE e + 1)),
      closed |-> (m[Len(m)] % 2) = 0 ]

InInterval4(c4, iv) ==
    IF iv.closed
    THEN DecCmp(iv.lo4, c4) <= 0 /\ DecCmp(c4, iv.hi4) <= 0
    ELSE DecCmp(iv.lo4, c4) < 0 /\ DecCmp(c4, iv.hi4) < 0

InInterval(c, iv) == InInterval4(DecShl(c, 2), iv)

\* v cut to its first k digits, and the next decimal of k digits above it.
FloorDigits(v, k) == SubSeq(v, 1, k) \o Zeros(Len(v) - k)
CeilDigits(v, k) == DecAdd(FloorDigits(v, k), <<1>> \o Zeros(Len(v) - k))

\* The least number of digits with a decimal in the interval.
ShortestLen(v, iv) ==
    MinOf({k \in 1..Len(v) :
            \/ k = Len(v)
            \/ InInterval(FloorDigits(v, k), iv)
            \/ InInterval(CeilDigits(v, k), iv)})

\* Of the two decimals f <= v <= c, the one in the interval nearest to v.
NearestIn(v, iv, f, c) ==
    IF ~InInterval(c, iv) THEN f
    ELSE IF ~InInterval(f, iv) THEN c
    ELSE IF DecCmp(DecSub(v, f), DecSub(c, v)) < 0 THEN f ELSE c

ShortestAt(v, iv, k) == NearestIn(v, iv, FloorDigits(v, k), CeilDigits(v, k))

Shortest(v, iv) == ShortestAt(v, iv, ShortestLen(v, iv))

DecimalOf(pick) == [digits |-> StripTrailingZeros(pick), exp |-> Len(pick)]

\* The shortest decimal that reads back as m * 2^e (core::fmt::float,
\* flt2dec::to_shortest_str).
ShortestDecimal(m, e) ==
    DecimalOf(Shortest(DecShl(m, e), RoundingInterval(DecShl(m, e + 2), m, e)))

RoundShifted(s) == ShortestDecimal(RoundMantissa(s), s.e)

\* The f64 nearest to the positive integer with decimal digits d, as the
\* shortest decimal that reads back to it.
RoundInteger(d) ==
    IF DecCmp(d, TwoPow53) < 0
    THEN DecimalOf(d)
    ELSE RoundShifted(ShiftToMantissa(d, 0, 0, FALSE))

F64OfDecimal(neg, r) == F64Finite(neg, r.digits, r.exp)

\* The f64 a decimal of digits d (any digits) with n of them before the
\* point reads as.  Exact for decimals of at most F64ExactDigits
\* significant digits in the normal range and for integers of any width;
\* the specifications below draw no other decimal.
round_decimal(neg, d, n) ==
    LET lead == StripLeadingZeros(d)
        exp == n - (Len(d) - Len(lead))
        digits == StripTrailingZeros(lead)
    IN  IF digits = <<>> THEN F64Finite(neg, <<>>, 0)
        ELSE IF exp > F64OverflowExp
                \/ (exp = F64OverflowExp /\ FracCmp(digits, F64OverflowDigits) >= 0)
            THEN F64Inf(neg)
        ELSE IF exp < F64UnderflowExp
                \/ (exp = F64UnderflowExp /\ FracCmp(digits, F64UnderflowDigits) <= 0)
            THEN F64Finite(neg, <<>>, 0)
        ELSE IF Len(digits) > F64ExactDigits /\ exp >= Len(digits)
            THEN F64OfDecimal(neg, RoundInteger(digits \o Zeros(exp - Len(digits))))
        ELSE F64Finite(neg, digits, exp)

\* The position after the run of ASCII digits that starts at position i.
DigitRunEnd(s, i) ==
    IF \A j \in i..Len(s) : IsDigit(s[j]) THEN (IF i > Len(s) THEN i ELSE Len(s) + 1)
    ELSE MinOf({j \in i..Len(s) : ~IsDigit(s[j])})

\* Exponents saturate here: any larger one overflows or underflows anyway.
ExpCap == 100000

RECURSIVE ExpValue(_, _, _, _)
ExpValue(s, i, j, acc) ==
    IF i >= j THEN acc
    ELSE ExpValue(s, i + 1, j, IF acc >= ExpCap THEN ExpCap ELSE acc * 10 + (s[i] - Ch0))

ToLower(b) == IF b >= ChA /\ b <= 90 THEN b + 32 ELSE b

\* <f64 as FromStr>::from_str: Sign? ('inf' | 'infinity' | 'nan' | Number),
\* Number ::= (Digit+ | Digit+ '.' Digit* | Digit* '.' Digit+) Exp?,
\* Exp ::= 'e' Sign? Digit+, letters in either case.
from_str_f64(s) ==
    LET signed == Len(s) >= 1 /\ s[1] \in {PLUS, MINUS}
        neg == Len(s) >= 1 /\ s[1] = MINUS
        i0 == IF signed THEN 2 ELSE 1
        word == [k \in 1..(Len(s) - i0 + 1) |-> ToLower(s[i0 + k - 1])]
        i1 == DigitRunEnd(s, i0)
        hasDot == i1 <= Len(s) /\ s[i1] = DOT
        i2 == IF hasDot THEN i1 + 1 ELSE i1
        i3 == DigitRunEnd(s, i2)
        hasExp == i3 <= Len(s) /\ s[i3] \in {Che, ChE}
        i4 == IF hasExp THEN i3 + 1 ELSE i3
        expSigned == hasExp /\ i4 <= Len(s) /\ s[i4] \in {PLUS, MINUS}
        expNeg == expSigned /\ s[i4] = MINUS
        i5 == IF expSigned THEN i4 + 1 ELSE i4
        i6 == DigitRunEnd(s, i5)
        mant == [k \in 1..((i1 - i0) + (i3 - i2)) |->
                    IF k <= i1 - i0 THEN s[i0 + k - 1] - Ch0
                    ELSE s[i2 + (k - (i1 - i0)) - 1] - Ch0]
        ev == ExpValue(s, i5, i6, 0)
        e10 == IF expNeg THEN 0 - ev ELSE ev
    IN  IF word = <<105, 110, 102>> \/ word = <<105, 110, 102, 105, 110, 105, 116, 121>>
        THEN Ok(F64Inf(neg))
        ELSE IF word = <<110, 97, 110>> THEN Ok(F64Nan)
        ELSE IF (i1 - i0) + (i3 - i2) = 0 \/ (hasExp /\ i6 = i5) \/ i6 <= Len(s)
        THEN Err("ParseFloatError")
        ELSE Ok(round_decimal(neg, mant, (i1 - i0) + e10))

\* The decimal digits as ASCII.
DigitChars(d) == [i \in 1..Len(d) |-> Ch0 + d[i]]

\* <f64 as Display>::fmt: the shortest digits, positional, never an exponent.
fmt_f64(f) ==
    CASE f.class = "nan" -> <<78, 97, 78>>
      [] f.class = "inf" -> (IF f.neg THEN <<MINUS>> ELSE <<>>) \o <<105, 110, 102>>
      [] OTHER ->
            LET n == Len(f.digits)
                body == IF n = 0 THEN <<Ch0>>
                        ELSE IF f.exp <= 0
                        THEN <<Ch0, DOT>> \o DigitChars(Zeros(0 - f.exp)) \o DigitChars(f.digits)
                        ELSE IF f.exp < n
                        THEN DigitChars(SubSeq(f.digits, 1, f.exp)) \o <<DOT>>
                             \o DigitChars(SubSeq(f.digits, f.exp + 1, n))
                        ELSE DigitChars(f.digits) \o DigitChars(Zeros(f.exp - n))
            IN  (IF f.neg THEN <<MINUS>> ELSE <<>>) \o body

(***************************************************************************)
(* The value model (lib.rs).  An Object's map is the sequence of its       *)
(* entries in iteration order, keys unique; two maps are equal when they   *)
(* hold the same keys with equal values, whatever the order.               *)
(***************************************************************************)
Null == [type |-> "Null"]
Boolean(b) == [type |-> "Boolean", b |-> b]
\* lib.rs enum Number: Float(f64) | Int(i64).
NumberFloat(f) == [variant |-> "Float", f |-> f]
NumberInt(i) == [variant |-> "Int", i |-> i]
\* An i64 as its sign and the decimal digits of its magnitude (zero: none).
I64(neg, digits) == [neg |-> neg, digits |-> digits]
\* i64::MAX, 9223372036854775807.
I64Max == I64(FALSE, <<9, 2, 2, 3, 3, 7, 2, 0, 3, 6, 8, 5, 4, 7, 7, 5, 8, 0, 7>>)
Number(n) == [type |-> "Number", num |-> n]
String(s) == [type |-> "String", str |-> s]
Array(items) == [type |-> "Array", items |-> items]
Object(entries) == [type |-> "Object", entries |-> entries]

Entry(k, v) == [key |-> k, value |-> v]

\* ValueMap::get: the value under key, or None.
map_get(entries, key) ==
    LET hits == {i \in 1..Len(entries) : entries[i].key = key}
    IN  IF hits = {} THEN None ELSE Some(entries[CHOOSE i \in hits : TRUE].value)

\* An insert that keeps the value a key already has.
map_insert_keep_first(entries, key, val) ==
    IF \E i \in 1..Len(entries) : entries[i].key = key
    THEN entries
    ELSE Append(entries, Entry(key, val))

\* ValueMap::insert: replace the value of a key the map holds, or add the entry.
map_insert(entries, key, val) ==
    IF \E i \in 1..Len(entries) : entries[i].key = key
    THEN [i \in 1..Len(entries) |->
            IF entries[i].key = key THEN Entry(key, val) ELSE entries[i]]
    ELSE Append(entries, Entry(key, val))

MapKeys(entries) == {entries[i].key : i \in 1..Len(entries)}

RECURSIVE ValueEq(_, _)
\* Structural equality of two value trees.
ValueEq(a, b) ==
    /\ a.type = b.type
    /\ CASE a.type = "Array" ->
              /\ Len(a.items) = Len(b.items)
              /\ \A i \in 1..Len(a.items) : ValueEq(a.items[i], b.items[i])
         [] a.type = "Object" ->
              /\ Len(a.entries) = Len(b.entries)
              /\ MapKeys(a.entries) = MapKeys(b.entries)
              /\ \A i \in 1..Len(a.entries) :
                    ValueEq(a.entries[i].value, map_get(b.entries, a.entries[i].key).v)
         [] OTHER -> a = b

(***************************************************************************)
(* Mutation and indexing of a Value (lib.rs).  A call on &mut self is      *)
(* written as the pair of self afterwards and what the call returned; a    *)
(* panic returns Panic and leaves self as it was when the panic was        *)
(* raised.  An index or key is [kind |-> "usize", i |-> n] or              *)
(* [kind |-> "str", key |-> k].                                            *)
(***************************************************************************)
Usize(i) == [kind |-> "usize", i |-> i]
Str(k) == [kind |-> "str", key |-> k]

Mutated(self, ret) == [self |-> self, ret |-> ret]

\* A push that turns every receiver that is no array into one.
push_convert_any(self, v) ==
    IF self.type = "Array"
    THEN Mutated(Array(Append(self.items, v)), Ok(Null))
    ELSE Mutated(Array(<<v>>), Ok(Null))

\* Value::push.
push(self, v) ==
    LET converted == IF self.type = "Null" THEN Array(<<>>) ELSE self
    IN  IF converted.type # "Array" THEN Mutated(converted, Panic)
        ELSE Mutated(Array(Append(converted.items, v)), Ok(Null))

\* Value::insert: returns the value the key had, if any.
insert(self, k, v) ==
    LET converted == IF self.type = "Null" THEN Object(<<>>) ELSE self
    IN  IF converted.type # "Object" THEN Mutated(converted, Panic)
        ELSE Mutated(Object(map_insert(converted.entries, k, v)),
                     Ok(map_get(converted.entries, k)))

\* IndexOrKey for usize :: get.
usize_get(i, v) ==
    IF v.type # "Array" THEN None
    ELSE IF i < Len(v.items) THEN Some(v.items[i + 1]) ELSE None

\* IndexOrKey for &str / String :: get.
str_get(key, v) == IF v.type # "Object" THEN None ELSE map_get(v.entries, key)

\* Value::get.
get(self, i_k) ==
    IF i_k.kind = "usize" THEN usize_get(i_k.i, self) ELSE str_get(i_k.key, self)

\* A get_or_insert that pads the array with Null up to the index.
usize_get_or_insert_growing(i, v) ==
    LET items == IF v.type = "Array" THEN v.items ELSE <<>>
        grown == [j \in 1..(IF i < Len(items) THEN Len(items) ELSE i + 1) |->
                    IF j <= Len(items) THEN items[j] ELSE Null]
    IN  Mutated(Array(grown), Ok(grown[i + 1]))

\* IndexOrKey for usize :: get_or_insert: &mut array[self].
usize_get_or_insert(i, v) ==
    IF v.type # "Array" THEN Mutated(v, Panic)
    ELSE IF i < Len(v.items) THEN Mutated(v, Ok(v.items[i + 1]))
    ELSE Mutated(v, Panic)

\* IndexOrKey for &str / String :: get_or_insert:
\* object.entry(key).or_insert(Value::Null).
str_get_or_insert(key, v) ==
    LET converted == IF v.type = "Null" THEN Object(<<>>) ELSE v
    IN  IF converted.type # "Object" THEN Mutated(converted, Panic)
        ELSE LET found == map_get(converted.entries, key)
             IN  IF found.some THEN Mutated(converted, Ok(found.v))
                 ELSE Mutated(Object(Append(converted.entries, Entry(key, Null))),
                              Ok(Null))

\* An index that hands back the receiver where the lookup finds nothing.
index_or_self(self, i_k) ==
    LET found == get(self, i_k)
    IN  IF found.some THEN found.v ELSE self

\* Index for Value (fn index): index.get(self).unwrap_or(&NULL).
value_index(self, i_k) ==
    LET found == get(self, i_k)
    IN  IF found.some THEN found.v ELSE Null

\* IndexMut for Value.
index_mut(self, i_k) ==
    IF i_k.kind = "usize" THEN usize_get_or_insert(i_k.i, self)
    ELSE str_get_or_insert(i_k.key, self)

(***************************************************************************)
(* Serializer (format.rs).                                                 *)
(***************************************************************************)
Spaces(count) == [kind |-> "Spaces", count |-> count]
Tabs(count) == [kind |-> "Tabs", count |-> count]

\* JsonFormatter::new.
JsonFormatter(sameline, no_spacing, indent) ==
    [sameline |-> sameline, no_spacing |-> no_spacing, indent |-> indent,
     indent_level |-> 0]

\* JsonFormatter::indent: a copy one level deeper.
formatter_indent(fmt) == [fmt EXCEPT !.indent_level = @ + 1]

\* Display for Indent: count spaces or tabs.
fmt_indent(indent) ==
    [i \in 1..indent.count |-> IF indent.kind = "Spaces" THEN SPACE ELSE TAB]

\* Display for Indentation: the indent, indent_level times.
indentation(fmt) == Concat([i \in 1..fmt.indent_level |-> fmt_indent(fmt.indent)])

\* A separator of two commas.
write_separator_twice(fmt) ==
    <<COMMA, COMMA>> \o (IF ~fmt.sameline THEN <<LF>>
                         ELSE IF ~fmt.no_spacing THEN <<SPACE>> ELSE <<>>)

\* JsonFormatter::write_separator.
write_separator(fmt) ==
    <<COMMA>> \o (IF ~fmt.sameline THEN <<LF>>
                  ELSE IF ~fmt.no_spacing THEN <<SPACE>> ELSE <<>>)

write_null == <<110, 117, 108, 108>>

write_boolean(b) == IF b THEN <<116, 114, 117, 101>> ELSE <<102, 97, 108, 115, 101>>

\* Display of an i64: its decimal digits, as lib.rs parse_number_test expects
\* of to_string for Number::Int.
fmt_i64(i) ==
    (IF i.neg THEN <<MINUS>> ELSE <<>>)
    \o (IF i.digits = <<>> THEN <<Ch0>> ELSE DigitChars(i.digits))

write_number(n) == IF n.variant = "Int" THEN fmt_i64(n.i) ELSE fmt_f64(n.f)

write_string(s) == <<QUOTE>> \o escape_string(s) \o <<QUOTE>>

RECURSIVE write_value(_, _)
RECURSIVE write_array(_, _)
RECURSIVE write_object(_, _)

write_array(array, formatter) ==
    LET indent == formatter_indent(formatter)
        item(index) ==
            (IF ~indent.sameline THEN indentation(indent) ELSE <<>>)
            \o write_value(array[index + 1], indent)
            \o (IF index + 1 # Len(array) THEN write_separator(indent) ELSE <<>>)
    IN  <<LBRACKET>>
        \o (IF ~formatter.sameline THEN <<LF>> ELSE <<>>)
        \o Concat([i \in 1..Len(array) |-> item(i - 1)])
        \o (IF ~formatter.sameline THEN <<LF>> \o indentation(formatter) ELSE <<>>)
        \o <<RBRACKET>>

write_object(object, formatter) ==
    LET indent == formatter_indent(formatter)
        item(index) ==
            (IF ~indent.sameline THEN indentation(indent) ELSE <<>>)
            \o write_string(object[index + 1].key)
            \o (IF indent.no_spacing THEN <<COLON>> ELSE <<SPACE, COLON, SPACE>>)
            \o write_value(object[index + 1].value, indent)
            \o (IF index + 1 # Len(object) THEN write_separator(indent) ELSE <<>>)
    IN  <<LBRACE>>
        \o (IF ~formatter.sameline THEN <<LF>> ELSE <<>>)
        \o Concat([i \in 1..Len(object) |-> item(i - 1)])
        \o (IF ~formatter.sameline THEN <<LF>> \o indentation(formatter) ELSE <<>>)
        \o <<RBRACE>>

write_value(v, formatter) ==
    CASE v.type = "Null" -> write_null
      [] v.type = "Boolean" -> write_boolean(v.b)
      [] v.type = "Number" -> write_number(v.num)
      [] v.type = "String" -> write_string(v.str)
      [] v.type = "Array" -> write_array(v.items, formatter)
      [] v.type = "Object" -> write_object(v.entries, formatter)

\* Display for Value (to_string): compact, no spacing.
to_string(v) == write_value(v, JsonFormatter(TRUE, TRUE, Spaces(0)))

\* Display for PrettyPrint(value, indent, no_spacing).
pretty_print_format(v, indent, spacing) ==
    write_value(v, JsonFormatter(FALSE, ~spacing, indent))

(***************************************************************************)
(* Parser (parse.rs).  bytes is Parser.source, index is Parser.index.  A   *)
(* sub-parser returns Parsed(value, index after it) or the ParseError.     *)
(***************************************************************************)
Parsed(v, index) == [ok |-> TRUE, val |-> v, index |-> index]

\* u8::is_ascii_whitespace: space, tab, line feed, form feed, carriage return.
is_ascii_whitespace(b) == b \in {SPACE, TAB, LF, FF, CR}

\* Parser::peek.
peek(bytes, index) == IF index < Len(bytes) THEN Some(bytes[index + 1]) ELSE None

\* A rewind of two bytes.
rewind_two(index) == IF index >= 2 THEN index - 2 ELSE 0

\* Parser::rewind.
rewind(index) == IF index >= 1 THEN index - 1 ELSE 0

\* Parser::matches: "yes", "no", or "panic" when the str slice
\* source[index..index + len] does not end on a char boundary.
matches(bytes, index, text) ==
    IF index + Len(text) <= Len(bytes)
    THEN IF ~is_char_boundary(bytes, index) \/ ~is_char_boundary(bytes, index + Len(text))
         THEN "panic"
         ELSE IF SubSeq(bytes, index + 1, index + Len(text)) = text THEN "yes" ELSE "no"
    ELSE "no"

RECURSIVE eat_whitespace(_, _)
\* Parser::eat_whitespace: the index after the whitespace at index.
eat_whitespace(bytes, index) ==
    IF index < Len(bytes) /\ is_ascii_whitespace(bytes[index + 1])
    THEN eat_whitespace(bytes, index + 1)
    ELSE index

\* Parser::parse_null.
parse_null(bytes, index) ==
    LET m == matches(bytes, index, <<110, 117, 108, 108>>)
    IN  IF m = "panic" THEN Panic
        ELSE IF m = "yes" THEN Parsed(Null, index + 4)
        ELSE ErrAt("InvalidCharacter", index)

\* Parser::parse_boolean.
parse_boolean(bytes, index) ==
    LET t == matches(bytes, index, <<116, 114, 117, 101>>)
        f == matches(bytes, index, <<102, 97, 108, 115, 101>>)
    IN  IF t = "panic" THEN Panic
        ELSE IF t = "yes" THEN Parsed(TRUE, index + 4)
        ELSE IF f = "panic" THEN Panic
        ELSE IF f = "yes" THEN Parsed(FALSE, index + 5)
        ELSE ErrAt("InvalidCharacter", index)

\* A scan that lets '.' through wherever a digit came before.
number_dot_lax(next, found_e, found_dot, found_num) == next = DOT /\ found_num

\* Parser::parse_number, the guard of the '.' arm of the match.
number_dot(next, found_e, found_dot, found_num) ==
    next = DOT /\ found_num /\ ~found_dot /\ ~found_e

\* The while-let loop of Parser::parse_number: the index it leaves, or the error.
RECURSIVE number_scan(_, _, _, _, _)
number_scan(bytes, index, found_e, found_dot, found_num) ==
    IF index >= Len(bytes) THEN [ok |-> TRUE, index |-> index]
    ELSE LET next == bytes[index + 1]
             after == index + 1
         IN  CASE IsDigit(next) -> number_scan(bytes, after, found_e, found_dot, TRUE)
               [] number_dot(next, found_e, found_dot, found_num) ->
                     number_scan(bytes, after, found_e, TRUE, found_num)
               [] next \in {Che, ChE} /\ found_num /\ ~found_e ->
                     LET p == peek(bytes, after)
                         skip == IF p.some /\ p.v \in {PLUS, MINUS} THEN after + 1 ELSE after
                     IN  number_scan(bytes, skip, TRUE, found_dot, found_num)
               [] next \in {RBRACE, RBRACKET, COMMA} -> [ok |-> TRUE, index |-> rewind(after)]
               [] is_ascii_whitespace(next) -> [ok |-> TRUE, index |-> rewind(after)]
               [] OTHER -> ErrAt("InvalidCharacter", index)

\* The end of Parser::parse_number: what str::parse::<f64> made of the text.
number_parsed(f, index) == IF f.ok THEN Parsed(f.val, index) ELSE f

\* Parser::parse_number after its loop: the text from start to the index
\* the scan left, start being the index before the sign.
number_after_scan(bytes, start, scan) ==
    IF ~scan.ok THEN scan
    ELSE IF scan.index - start # 0
    THEN number_parsed(from_str_f64(SubSeq(bytes, start + 1, scan.index)), scan.index)
    ELSE ErrAt("InvalidCharacter", scan.index)

\* Parser::parse_number before its loop: the index after an optional sign.
number_after_sign(bytes, index) ==
    IF index < Len(bytes) /\ bytes[index + 1] \in {MINUS, PLUS} THEN index + 1 ELSE index

\* Parser::parse_number.
parse_number(bytes, index) ==
    number_after_scan(bytes, index,
        number_scan(bytes, number_after_sign(bytes, index), FALSE, FALSE, FALSE))

\* Parser::parse_string: the char a backslash followed by c stands for, for
\* every c but 'u'.
parse_string_simple(c) ==
    CASE c = Chf -> FF
      [] c = Chb -> BS
      [] c = Chn -> LF
      [] c = Chr -> CR
      [] c = Cht -> TAB
      [] OTHER -> c

\* The \u branch of Parser::parse_string: four next_char calls into a u16.
RECURSIVE parse_string_hex(_, _, _, _)
parse_string_hex(bytes, index, i, hex) ==
    IF i > 3 THEN [ok |-> TRUE, hex |-> hex, index |-> index]
    ELSE IF index >= Len(bytes) THEN Err("UnexpectedEOF")
    ELSE LET digit == char_at(bytes, index)
             val == hex_value(digit)
             ored == BitOr(hex, val.v)
             shifted == IF i < 3 THEN (ored * 16) % 65536 ELSE ored
         IN  IF ~val.some THEN Err("InvalidHex")
             ELSE parse_string_hex(bytes, index + len_utf8(digit), i + 1, shifted)

\* A match arm that stops at a line feed only.
string_line_break_lf(next) == next = LF

\* Parser::parse_string, the arm '\n' | '\r' of the match on the next char.
string_line_break(next) == next \in {LF, CR}

\* The loop of Parser::parse_string, after the opening quote.
RECURSIVE string_loop(_, _, _, _)
string_loop(bytes, index, start, buffer) ==
    IF index >= Len(bytes) THEN ErrAt("UnexpectedEOFWhileParsingString", start)
    ELSE LET next == char_at(bytes, index)
             after == index + len_utf8(next)
         IN  IF string_line_break(next) THEN ErrAt("LineBreakWhileParsingString", index)
             ELSE IF next = QUOTE THEN Parsed(buffer, after)
             ELSE IF next # BACKSLASH THEN string_loop(bytes, after, start, Append(buffer, next))
             ELSE IF after >= Len(bytes) THEN Err("UnexpectedEOF")
             ELSE LET c == char_at(bytes, after)
                      after2 == after + len_utf8(c)
                  IN  IF c # Chu
                      THEN string_loop(bytes, after2, start,
                                       Append(buffer, parse_string_simple(c)))
                      ELSE LET h == parse_string_hex(bytes, after2, 0, 0)
                               res == from_u32(h.hex)
                           IN  IF ~h.ok THEN h
                               ELSE IF ~res.some THEN Err("InvalidEscapeSequence")
                               ELSE string_loop(bytes, h.index, start, Append(buffer, res.v))

\* Parser::parse_string.
parse_string(bytes, index) ==
    LET p == peek(bytes, index)
    IN  IF ~p.some THEN Err("UnexpectedEOF")
        ELSE IF p.v # QUOTE THEN ErrAt("InvalidCharacter", index)
        ELSE string_loop(bytes, index + 1, index + 1, <<>>)

RECURSIVE parse_value(_, _)
RECURSIVE array_loop(_, _, _)
RECURSIVE object_loop(_, _, _)

\* Parser::parse_array after an element: ']' ends the array, ',' continues.
array_separator(bytes, index, array) ==
    IF index >= Len(bytes) THEN Err("UnexpectedEOF")
    ELSE IF bytes[index + 1] = RBRACKET THEN Parsed(array, index + 1)
    ELSE IF bytes[index + 1] = COMMA THEN array_loop(bytes, index + 1, array)
    ELSE ErrAt("InvalidCharacter", index)

\* Parser::parse_array: array.push(self.parse_value()?), then the whitespace.
array_push(bytes, v, array) ==
    IF ~v.ok THEN v
    ELSE array_separator(bytes, eat_whitespace(bytes, v.index), Append(array, v.val))

\* An array loop that takes ']' for the end only before the first element.
array_peek_strict(bytes, index, array) ==
    IF index >= Len(bytes) THEN Err("UnexpectedEOF")
    ELSE IF bytes[index + 1] = RBRACKET /\ array = <<>> THEN Parsed(array, index + 1)
    ELSE array_push(bytes, parse_value(bytes, index), array)

\* Parser::parse_array, the match on self.peek() at the head of the loop.
array_peek(bytes, index, array) ==
    IF index >= Len(bytes) THEN Err("UnexpectedEOF")
    ELSE IF bytes[index + 1] = RBRACKET THEN Parsed(array, index + 1)
    ELSE array_push(bytes, parse_value(bytes, index), array)

\* The loop of Parser::parse_array, with the array so far.
array_loop(bytes, index, array) ==
    array_peek(bytes, eat_whitespace(bytes, index), array)

\* Parser::parse_array.
parse_array(bytes, index) ==
    IF index >= Len(bytes) THEN Err("UnexpectedEOF")
    ELSE IF bytes[index + 1] # LBRACKET THEN ErrAt("InvalidCharacter", index)
    ELSE array_loop(bytes, index + 1, <<>>)

\* Parser::parse_object after a member: ',' continues, '}' ends the object.
object_separator(bytes, index, map) ==
    IF index >= Len(bytes) THEN Err("UnexpectedEOF")
    ELSE IF bytes[index + 1] = COMMA THEN object_loop(bytes, index + 1, map)
    ELSE IF bytes[index + 1] = RBRACE THEN Parsed(map, index + 1)
    ELSE ErrAt("InvalidCharacter", index)

\* Parser::parse_object: map.insert(key, value), then the whitespace.
object_insert(bytes, key, v, map) ==
    IF ~v.ok THEN v
    ELSE object_separator(bytes, eat_whitespace(bytes, v.index),
                          map_insert(map, key, v.val))

\* Parser::parse_object after the key and its whitespace: ':', whitespace,
\* then the value.
object_colon(bytes, index, key, map) ==
    IF index >= Len(bytes) THEN Err("UnexpectedEOF")
    ELSE IF bytes[index + 1] # COLON THEN ErrAt("InvalidCharacter", index)
    ELSE object_insert(bytes, key,
                       parse_value(bytes, eat_whitespace(bytes, index + 1)), map)

\* Parser::parse_object: let key = self.parse_string()?, then the whitespace.
object_key(bytes, key, map) ==
    IF ~key.ok THEN key
    ELSE object_colon(bytes, eat_whitespace(bytes, key.index), key.val, map)

\* Parser::parse_object, the match on self.peek() at the head of the loop.
object_peek(bytes, index, map) ==
    IF index >= Len(bytes) THEN Err("UnexpectedEOF")
    ELSE IF bytes[index + 1] = QUOTE
    THEN object_key(bytes, parse_string(bytes, index), map)
    ELSE IF bytes[index + 1] = RBRACE THEN Parsed(map, index + 1)
    ELSE ErrAt("InvalidCharacter", index)

\* The loop of Parser::parse_object, with the map so far.
object_loop(bytes, index, map) ==
    object_peek(bytes, eat_whitespace(bytes, index), map)

\* Parser::parse_object.
parse_object(bytes, index) ==
    IF index >= Len(bytes) THEN Err("UnexpectedEOF")
    ELSE IF bytes[index + 1] # LBRACE THEN ErrAt("InvalidCharacter", index)
    ELSE object_loop(bytes, index + 1, <<>>)

\* The Value a sub-parser's payload is wrapped into.
Wrap(r, variant) ==
    IF ~r.ok THEN r
    ELSE Parsed(CASE variant = "Boolean" -> Boolean(r.val)
                  [] variant = "String" -> String(r.val)
                  [] variant = "Object" -> Object(r.val)
                  [] variant = "Array" -> Array(r.val)
                  [] variant = "Number" -> Number(NumberFloat(r.val)),
                r.index)

\* Parser::parse_value.  parse_number returns an f64 and it is wrapped as
\* is: the parser has no integer path, every number is a float.
parse_value(bytes, index) ==
    IF index >= Len(bytes) THEN Err("UnexpectedEOF")
    ELSE CASE bytes[index + 1] \in {Cht, Chf} ->
                Wrap(parse_boolean(bytes, index), "Boolean")
           [] bytes[index + 1] = Chn -> parse_null(bytes, index)
           [] bytes[index + 1] = QUOTE -> Wrap(parse_string(bytes, index), "String")
           [] bytes[index + 1] = LBRACE -> Wrap(parse_object(bytes, index), "Object")
           [] bytes[index + 1] = LBRACKET -> Wrap(parse_array(bytes, index), "Array")
           [] bytes[index + 1] \in {PLUS, MINUS} \/ IsDigit(bytes[index + 1]) ->
                Wrap(parse_number(bytes, index), "Number")
           [] OTHER -> ErrAt("InvalidCharacter", index)

\* from_str without the eat_whitespace after the value: the end of the text
\* is looked for right after the value.
from_str_end_unskipped(bytes, res, index) ==
    IF res.index < Len(bytes) THEN ErrAt("InvalidCharacter", res.index) ELSE Ok(res.val)

\* from_str after the value: the whitespace, then the end of the text.
from_str_end(bytes, res, index) ==
    IF index < Len(bytes) THEN ErrAt("InvalidCharacter", index) ELSE Ok(res.val)

\* from_str: parser.eat_whitespace() after parser.parse_value()?.
from_str_value(bytes, res) ==
    IF ~res.ok THEN res
    ELSE from_str_end(bytes, res, eat_whitespace(bytes, res.index))

from_str_bytes(bytes) == from_str_value(bytes, parse_value(bytes, eat_whitespace(bytes, 0)))

\* <Value as FromStr>::from_str.
from_str(s) == from_str_bytes(as_bytes(s))

(***************************************************************************)
(* The operations as actions.  pc orders them: "start" (an input is        *)
(* drawn), "ready" (source holds the text to parse), "parsed", and so on.  *)
(***************************************************************************)
\* value.to_string() becomes the text to parse.
Display ==
    /\ pc = "start"
    /\ source' = to_string(value)
    /\ pc' = "ready"
    /\ UNCHANGED <<value, result, rendered, twin, twinResult, members, string,
                   escaped, unescaped>>
    /\ UNCHANGED <<accessVars, parserVars>>

\* Value::from_str(source).
FromStr ==
    /\ pc = "ready"
    /\ result' = from_str(source)
    /\ pc' = "parsed"
    /\ UNCHANGED <<value, source, rendered, twin, twinResult, members, string,
                   escaped, unescaped>>
    /\ UNCHANGED <<accessVars, parserVars>>

\* to_string() of the value just parsed (lib.rs tests::parse_number_test).
Render ==
    /\ pc = "parsed"
    /\ result.ok
    /\ rendered' = to_string(result.val)
    /\ pc' = "rendered"
    /\ UNCHANGED <<value, source, result, twin, twinResult, members, string,
                   escaped, unescaped>>
    /\ UNCHANGED <<accessVars, parserVars>>

\* Value::from_str(twin).
FromStrTwin ==
    /\ pc = "parsed"
    /\ twinResult' = from_str(twin)
    /\ pc' = "paired"
    /\ UNCHANGED <<value, source, result, rendered, twin, members, string,
                   escaped, unescaped>>
    /\ UNCHANGED <<accessVars, parserVars>>

\* escape_string(string).
EscapeString ==
    /\ pc = "start"
    /\ escaped' = escape_string(string)
    /\ pc' = "escaped"
    /\ UNCHANGED <<value, source, result, rendered, twin, twinResult, members,
                   string, unescaped>>
    /\ UNCHANGED <<accessVars, parserVars>>

\* unescape_string(escaped).
UnescapeString ==
    /\ pc = "escaped"
    /\ unescaped' = unescape_string(escaped)
    /\ pc' = "unescaped"
    /\ UNCHANGED <<value, source, result, rendered, twin, twinResult, members,
                   string, escaped>>
    /\ UNCHANGED <<accessVars, parserVars>>

\* unescape_string(string): string is the raw text between the quotes of the
\* literal in source.
UnescapeSpan ==
    /\ pc = "parsed"
    /\ unescaped' = unescape_string(string)
    /\ pc' = "compared"
    /\ UNCHANGED <<value, source, result, rendered, twin, twinResult, members,
                   string, escaped>>
    /\ UNCHANGED <<accessVars, parserVars>>

\* unescape_string(string).
Unescape ==
    /\ pc = "start"
    /\ unescaped' = unescape_string(string)
    /\ pc' = "decoded"
    /\ UNCHANGED <<value, source, result, rendered, twin, twinResult, members,
                   string, escaped>>
    /\ UNCHANGED <<accessVars, parserVars>>

\* The strings over alphabet of at most n chars.
StringsUpTo(alphabet, n) == UNION {[1..k -> alphabet] : k \in 0..n}


(***************************************************************************)
(* SpecCodec: escape_string, then unescape_string on its output.           *)
(***************************************************************************)
MaxStringLen == 3

CodecAlphabet == {NUL, BS, LF, US, QUOTE, BACKSLASH, Chn, Chu, Ch0, 233}

Controls == NUL..US

CodecStrings ==
    StringsUpTo(CodecAlphabet, MaxStringLen)
    \cup {<<c>> : c \in Controls}
    \cup {<<c, d>> : c \in Controls, d \in CodecAlphabet}

InitCodec ==
    /\ pc = "start"
    /\ string \in CodecStrings
    /\ value = Null
    /\ source = <<>>
    /\ result = NoResult
    /\ rendered = <<>>
    /\ twin = <<>>
    /\ twinResult = NoResult
    /\ members = <<>>
    /\ escaped = <<>>
    /\ unescaped = NoResult
    /\ receiver = Null
    /\ argument = Null
    /\ outcome = NoResult
    /\ measured = 0
    /\ input = <<>>
    /\ cursor = 0
    /\ frames = <<>>

NextCodec == EscapeString \/ UnescapeString

SpecCodec == InitCodec /\ [][NextCodec]_vars

\* C2: unescape_string(escape_string(s)) returns Ok(s) for every string s.
C2_EscapeRoundTrip == pc = "unescaped" => unescaped = Ok(string)

C2_Witness ==
    /\ pc = "unescaped"
    /\ Len(string) = 3
    /\ \E i, j, k \in 1..3 : string[i] = US /\ string[j] = QUOTE /\ string[k] = BACKSLASH

(***************************************************************************)
(* SpecRoundTrip: a value is rendered compactly and the text parsed back.  *)
(***************************************************************************)
MaxNodes == 3

\* 2^63, the f64 nearest to i64::MAX.
F64TwoPow63 == F64Finite(FALSE, <<9, 2, 2, 3, 3, 7, 2, 0, 3, 6, 8, 5, 4, 7, 7, 6>>, 19)

LeafFloats ==
    { F64Finite(FALSE, <<1>>, 1),          \* 1
      F64Finite(TRUE, <<3, 5>>, 3),        \* -350
      F64Finite(FALSE, <<2, 5>>, -1),      \* 0.025
      F64Finite(TRUE, <<>>, 0),            \* -0
      F64TwoPow63,
      F64Nan,
      F64Inf(FALSE) }

LeafInts == { I64(FALSE, <<1>>), I64(TRUE, <<4, 2>>), I64Max }

LeafNumbers ==
    {NumberFloat(f) : f \in LeafFloats} \cup {NumberInt(i) : i \in LeafInts}

LeafStrings == { <<>>, <<Cha, QUOTE, BACKSLASH>>, <<US, 233, LF>> }

LeafValues ==
    {Null, Boolean(TRUE), Boolean(FALSE)}
    \cup {Number(n) : n \in LeafNumbers}
    \cup {String(s) : s \in LeafStrings}

ObjectKeys == { <<Cha>>, <<TAB, QUOTE>> }

DistinctKeySeqs(m) ==
    {ks \in [1..m -> ObjectKeys] : \A i, j \in 1..m : i # j => ks[i] # ks[j]}

RECURSIVE ValuesOfSize(_)
RECURSIVE ForestsOfSize(_)
\* The sequences of values with n nodes in total.
ForestsOfSize(n) ==
    IF n = 0 THEN {<<>>}
    ELSE UNION {{<<v>> \o f : v \in ValuesOfSize(k), f \in ForestsOfSize(n - k)} :
                k \in 1..n}

\* The values with n nodes: scalars, arrays and objects count one each.
ValuesOfSize(n) ==
    IF n = 1 THEN LeafValues \cup {Array(<<>>), Object(<<>>)}
    ELSE {Array(f) : f \in ForestsOfSize(n - 1)}
         \cup UNION {{Object([i \in 1..Len(f) |-> Entry(ks[i], f[i])]) :
                      ks \in DistinctKeySeqs(Len(f))} : f \in ForestsOfSize(n - 1)}

Values == UNION {ValuesOfSize(n) : n \in 1..MaxNodes}

RECURSIVE HasNonFinite(_)
\* Does the tree hold a NaN or an infinity?
HasNonFinite(v) ==
    CASE v.type = "Number" -> v.num.variant = "Float" /\ v.num.f.class # "finite"
      [] v.type = "Array" -> \E i \in 1..Len(v.items) : HasNonFinite(v.items[i])
      [] v.type = "Object" -> \E i \in 1..Len(v.entries) : HasNonFinite(v.entries[i].value)
      [] OTHER -> FALSE

InitRoundTrip ==
    /\ pc = "start"
    /\ value \in Values
    /\ source = <<>>
    /\ result = NoResult
    /\ rendered = <<>>
    /\ twin = <<>>
    /\ twinResult = NoResult
    /\ members = <<>>
    /\ string = <<>>
    /\ escaped = <<>>
    /\ unescaped = NoResult
    /\ receiver = Null
    /\ argument = Null
    /\ outcome = NoResult
    /\ measured = 0
    /\ input = <<>>
    /\ cursor = 0
    /\ frames = <<>>

NextRoundTrip == Display \/ FromStr

SpecRoundTrip == InitRoundTrip /\ [][NextRoundTrip]_vars

\* C1: a value without NaN or infinities, rendered with to_string and parsed
\* back with from_str, comes back Ok and structurally equal to the value.
C1_RoundTrip ==
    (pc = "parsed" /\ ~HasNonFinite(value)) =>
        (result.ok /\ ValueEq(result.val, value))

RECURSIVE HasInt(_)
\* Does the tree hold a Number::Int?
HasInt(v) ==
    CASE v.type = "Number" -> v.num.variant = "Int"
      [] v.type = "Array" -> \E i \in 1..Len(v.items) : HasInt(v.items[i])
      [] v.type = "Object" -> \E i \in 1..Len(v.entries) : HasInt(v.entries[i].value)
      [] OTHER -> FALSE

\* The same round trip for the trees whose numbers are all finite floats.
RoundTripOfFloats ==
    (pc = "parsed" /\ ~HasNonFinite(value) /\ ~HasInt(value)) =>
        (result.ok /\ ValueEq(result.val, value))

(***************************************************************************)
(* SpecParse: Value::from_str on short texts over a small alphabet.        *)
(***************************************************************************)
MaxSourceLen == 4

Ch1 == Ch0 + 1
Chx == Chu + 3

ParseAlphabet ==
    {LBRACKET, RBRACKET, LBRACE, RBRACE, COMMA, MINUS, PLUS, Ch1, SPACE, FF, Chx}

InitParse ==
    /\ pc = "ready"
    /\ source \in StringsUpTo(ParseAlphabet, MaxSourceLen)
    /\ value = Null
    /\ result = NoResult
    /\ rendered = <<>>
    /\ twin = <<>>
    /\ twinResult = NoResult
    /\ members = <<>>
    /\ string = <<>>
    /\ escaped = <<>>
    /\ unescaped = NoResult
    /\ receiver = Null
    /\ argument = Null
    /\ outcome = NoResult
    /\ measured = 0
    /\ input = <<>>
    /\ cursor = 0
    /\ frames = <<>>

NextParse == FromStr

SpecParse == InitParse /\ [][NextParse]_vars

\* The whitespace of the JSON grammar: space, tab, CR and LF.
JsonWhitespace == {SPACE, TAB, CR, LF}

RECURSIVE SkipJsonWhitespace(_, _)
\* The offset of the first byte at or after index that is not JSON whitespace.
SkipJsonWhitespace(bytes, index) ==
    IF index < Len(bytes) /\ bytes[index + 1] \in JsonWhitespace
    THEN SkipJsonWhitespace(bytes, index + 1)
    ELSE index

\* C3: from_str returns Ok only if the cursor is at the end of the text after
\* one complete value and the whitespace that follows it; when a
\* non-whitespace byte remains after the value, from_str fails with
\* InvalidCharacter at the offset of the first such byte.
C3_TrailingGarbage ==
    pc = "parsed" =>
        LET bytes == as_bytes(source)
            first == parse_value(bytes, SkipJsonWhitespace(bytes, 0))
            rest == SkipJsonWhitespace(bytes, first.index)
        IN  /\ result.ok => (first.ok /\ rest = Len(bytes))
            /\ (first.ok /\ rest < Len(bytes)) =>
                    result = ErrAt("InvalidCharacter", rest)

\* C6: a lone '-' or '+' where a value is expected, followed by the end of
\* the text or by '}', ']', ',' or whitespace, makes from_str fail with
\* InvalidCharacter.
C6_LoneSign ==
    pc = "parsed" =>
        LET bytes == as_bytes(source)
            at == SkipJsonWhitespace(bytes, 0)
            lone == /\ at < Len(bytes)
                    /\ bytes[at + 1] \in {MINUS, PLUS}
                    /\ \/ at + 1 = Len(bytes)
                       \/ bytes[at + 2] \in {RBRACE, RBRACKET, COMMA} \cup JsonWhitespace
        IN  lone => (~result.ok /\ result.err = "InvalidCharacter")

\* The bytes JSON tokens are made of.
TokenBytes ==
    {LBRACKET, RBRACKET, LBRACE, RBRACE, COMMA, COLON, QUOTE, MINUS, PLUS, DOT,
     ChE, Che} \cup (Ch0..Ch9) \cup {Cht, Chr, Chu, Che, Chf, Cha, 108, 115, Chn}

\* C9: the bytes skipped between tokens are exactly space, tab, CR and LF:
\* a text without string literals that parses holds no byte other than these
\* and the bytes of its tokens.
C9_WhitespaceSet ==
    (pc = "parsed" /\ result.ok) =>
        \A i \in 1..Len(source) : source[i] \in JsonWhitespace \cup TokenBytes

(***************************************************************************)
(* SpecString: from_str on a string literal, with or without its closing   *)
(* quote, and unescape_string on the raw text between the quotes.          *)
(***************************************************************************)
MaxPieces == 2

ChD == ChA + 3
ChG == ChF + 1
Ch4 == Ch0 + 4
Ch8 == Ch0 + 8

\* The pieces string bodies are put together from.
StringPieces ==
    { <<Cha>>,                                       \* a
      <<233>>,                                       \* a two-byte char
      <<BACKSLASH, Chn>>,                            \* \n
      <<BACKSLASH, QUOTE>>,                          \* \"
      <<BACKSLASH, BACKSLASH>>,                      \* \\
      <<BACKSLASH, Chx>>,                            \* \x
      <<BACKSLASH, Chu, Ch0, Ch0, Ch4, Ch1>>,        \* A
      <<BACKSLASH, Chu, ChD, Ch8, Ch0, Ch0>>,        \* \uD800
      <<BACKSLASH, Chu, Ch0, Ch0, ChG, Ch0>>,        \* \u00G0
      <<BACKSLASH, Chu, Ch0, Ch0>>,                  \* \u00
      <<BACKSLASH, Chu>>,                            \* \u
      <<BACKSLASH>>,                                 \* a backslash alone
      <<LF>>,                                        \* a raw line feed
      <<CR>> }                                       \* a raw carriage return

StringBodies == {Concat(ps) : ps \in StringsUpTo(StringPieces, MaxPieces)}

\* What precedes the opening quote, and what follows the body.
StringOpens == { <<>>, <<SPACE, LF>> }
StringCloses == { <<>>, <<QUOTE>> }

InitString ==
    /\ pc = "ready"
    /\ string \in StringBodies
    /\ \E open \in StringOpens, close \in StringCloses :
            source = open \o <<QUOTE>> \o string \o close
    /\ value = Null
    /\ result = NoResult
    /\ rendered = <<>>
    /\ twin = <<>>
    /\ twinResult = NoResult
    /\ members = <<>>
    /\ escaped = <<>>
    /\ unescaped = NoResult
    /\ receiver = Null
    /\ argument = Null
    /\ outcome = NoResult
    /\ measured = 0
    /\ input = <<>>
    /\ cursor = 0
    /\ frames = <<>>

NextString == FromStr \/ UnescapeSpan

SpecString == InitString /\ [][NextString]_vars

RECURSIVE ProperPrefix(_, _)
\* Is the body, from char i on, the beginning of a literal's content: no
\* unescaped quote, no raw line break, every complete escape one the grammar
\* has, the last escape possibly cut short?
ProperPrefix(body, i) ==
    IF i > Len(body) THEN TRUE
    ELSE IF body[i] \in {QUOTE, LF, CR} THEN FALSE
    ELSE IF body[i] # BACKSLASH THEN ProperPrefix(body, i + 1)
    ELSE IF i = Len(body) THEN TRUE
    ELSE IF body[i + 1] # Chu
         THEN body[i + 1] \in {QUOTE, BACKSLASH, SLASH, Chb, Chf, Chn, Chr, Cht}
              /\ ProperPrefix(body, i + 2)
    ELSE LET last == IF i + 5 <= Len(body) THEN i + 5 ELSE Len(body)
         IN  /\ \A j \in (i + 2)..last : hex_value(body[j]) # None
             /\ (i + 5 <= Len(body) =>
                    from_u32(hex_accumulate(0,
                        [k \in 1..4 |-> hex_value(body[i + 1 + k]).v], 0)) # None)
             /\ ProperPrefix(body, i + 6)

\* C5: when the text ends after an opening quote and before the closing
\* quote, wherever the end falls, from_str fails with
\* UnexpectedEOFWhileParsingString(start), start the offset just after the
\* opening quote.
C5_UnterminatedString ==
    pc = "parsed" =>
        \A open \in StringOpens :
            (source = open \o <<QUOTE>> \o string /\ ProperPrefix(string, 1)) =>
                result = ErrAt("UnexpectedEOFWhileParsingString", Len(open) + 1)

RECURSIVE ClosedBody(_, _)
\* Is the quote that follows the body its closing quote: the body holds no
\* unescaped quote and does not end in the middle of a backslash pair?
ClosedBody(body, i) ==
    IF i > Len(body) THEN TRUE
    ELSE IF body[i] = QUOTE THEN FALSE
    ELSE IF body[i] # BACKSLASH THEN ClosedBody(body, i + 1)
    ELSE i < Len(body) /\ ClosedBody(body, i + 2)

\* C10: for a literal the parser scans to its closing quote (it meets no
\* error before that quote), parse_string and unescape_string on the raw
\* text between the quotes agree: both Ok with the same string, or both
\* failing with the same error kind.
C10_InlineEqualsUnescape ==
    pc = "compared" =>
        \A open \in StringOpens :
            LET cut == from_str(open \o <<QUOTE>> \o string)
            IN  ( /\ source = open \o <<QUOTE>> \o string \o <<QUOTE>>
                  /\ ClosedBody(string, 1)
                  /\ cut.err \in {"UnexpectedEOF", "UnexpectedEOFWhileParsingString"} )
                => IF result.ok
                   THEN unescaped.ok /\ result.val = String(unescaped.val)
                   ELSE ~unescaped.ok /\ unescaped.err = result.err


RECURSIVE WholeContent(_, _)
\* Is the body, from char i on, content the grammar has and nothing else: no
\* unescaped quote, no raw line break, every escape complete and valid?
WholeContent(body, i) ==
    IF i > Len(body) THEN TRUE
    ELSE IF body[i] \in {QUOTE, LF, CR} THEN FALSE
    ELSE IF body[i] # BACKSLASH THEN WholeContent(body, i + 1)
    ELSE IF i = Len(body) THEN FALSE
    ELSE IF body[i + 1] # Chu
         THEN body[i + 1] \in {QUOTE, BACKSLASH, SLASH, Chb, Chf, Chn, Chr, Cht}
              /\ WholeContent(body, i + 2)
    ELSE /\ i + 5 <= Len(body)
         /\ \A j \in (i + 2)..(i + 5) : hex_value(body[j]) # None
         /\ from_u32(hex_accumulate(0,
                [k \in 1..4 |-> hex_value(body[i + 1 + k]).v], 0)) # None
         /\ WholeContent(body, i + 6)

RECURSIVE HasRawLineBreak(_, _)
\* Does the body, from char i on, hold a line feed or carriage return that
\* no backslash escapes, before any unescaped quote?
HasRawLineBreak(body, i) ==
    IF i > Len(body) THEN FALSE
    ELSE IF body[i] \in {LF, CR} THEN TRUE
    ELSE IF body[i] = QUOTE THEN FALSE
    ELSE IF body[i] # BACKSLASH THEN HasRawLineBreak(body, i + 1)
    ELSE HasRawLineBreak(body, i + 2)

MaxMembers == 3

MemberKeys == { <<Cha>>, <<Chb>> }

MemberValues == { Number(NumberFloat(F64Finite(FALSE, <<1>>, 1))), Null, String(<<Cha>>) }

\* What stands between the last member and the closing bracket.
Trailers == { <<>>, <<COMMA>>, <<COMMA, SPACE>> }

RECURSIVE JoinComma(_)
JoinComma(texts) ==
    IF texts = <<>> THEN <<>>
    ELSE IF Len(texts) = 1 THEN texts[1]
    ELSE texts[1] \o <<COMMA>> \o JoinComma(Tail(texts))

ObjectText(ms, trailer) ==
    <<LBRACE>>
    \o JoinComma([i \in 1..Len(ms) |->
            write_string(ms[i].key) \o <<COLON>> \o to_string(ms[i].value)])
    \o trailer \o <<RBRACE>>

ArrayText(ms, trailer) ==
    <<LBRACKET>>
    \o JoinComma([i \in 1..Len(ms) |-> to_string(ms[i].value)])
    \o trailer \o <<RBRACKET>>

InitObject ==
    /\ pc = "ready"
    /\ members \in StringsUpTo({Entry(k, v) : k \in MemberKeys, v \in MemberValues},
                               MaxMembers)
    /\ \E trailer \in Trailers :
            /\ trailer # <<>> => members # <<>>
            /\ source = ObjectText(members, trailer)
            /\ twin = ArrayText(members, trailer)
    /\ value = Null
    /\ result = NoResult
    /\ rendered = <<>>
    /\ twinResult = NoResult
    /\ string = <<>>
    /\ escaped = <<>>
    /\ unescaped = NoResult
    /\ receiver = Null
    /\ argument = Null
    /\ outcome = NoResult
    /\ measured = 0
    /\ input = <<>>
    /\ cursor = 0
    /\ frames = <<>>

NextObject == FromStr \/ FromStrTwin

SpecObject == InitObject /\ [][NextObject]_vars

\* The value of the last member with the key.
LastValue(ms, key) ==
    ms[CHOOSE i \in 1..Len(ms) :
            /\ ms[i].key = key
            /\ \A j \in (i + 1)..Len(ms) : ms[j].key # key].value

\* C4: an object text that repeats a key parses to an object with exactly
\* one entry for each distinct key, holding the value of the key's last
\* occurrence in the text.
C4_DuplicateKeys ==
    (pc \in {"parsed", "paired"} /\ result.ok) =>
        /\ result.val.type = "Object"
        /\ LET entries == result.val.entries
           IN  /\ Len(entries) = Cardinality(MapKeys(members))
               /\ MapKeys(entries) = MapKeys(members)
               /\ \A i \in 1..Len(entries) :
                    entries[i].value = LastValue(members, entries[i].key)

C4_Witness ==
    /\ pc = "parsed"
    /\ result.ok
    /\ Len(members) = 3
    /\ members[1].key = members[3].key
    /\ members[1].key # members[2].key
    /\ members[1].value # members[3].value

\* Does a comma, with optional whitespace after it, stand right before the
\* text's closing bracket?
HasTrailingComma(text) ==
    \E k \in 1..(Len(text) - 1) :
        /\ text[k] = COMMA
        /\ \A j \in (k + 1)..(Len(text) - 1) : text[j] \in JsonWhitespace

\* C8: a trailing comma before the ']' of a non-empty array is accepted if and
\* only if one before the '}' of a non-empty object is; a rejection is
\* InvalidCharacter at the offset of the closing bracket.
C8_TrailingCommaPolicy ==
    (pc = "paired" /\ HasTrailingComma(source) /\ HasTrailingComma(twin)) =>
        /\ result.ok <=> twinResult.ok
        /\ ~result.ok => result = ErrAt("InvalidCharacter", Len(as_bytes(source)) - 1)
        /\ ~twinResult.ok =>
                twinResult = ErrAt("InvalidCharacter", Len(as_bytes(twin)) - 1)

C8_Witness ==
    /\ pc = "paired"
    /\ Len(members) = 2
    /\ HasTrailingComma(source)
    /\ HasTrailingComma(twin)
    /\ source[Len(source) - 1] = SPACE
    /\ result.ok
    /\ twinResult.ok

(***************************************************************************)
(* SpecNumber: from_str on a number literal, then to_string of the parsed  *)
(* value (lib.rs tests::parse_number_test).                                *)
(***************************************************************************)
MaxNumberLen == 3

NumberAlphabet == {MINUS, Ch0, Ch1, Ch9, DOT, Che}

\* The two literals of parse_number_test.
TestIntText == DigitChars(I64Max.digits)
TestFloatText == <<51, DOT>> \o DigitChars(<<1, 4, 1, 5, 9, 2, 6, 5, 3, 5, 8, 9, 7, 9>>)

NumberTexts ==
    StringsUpTo(NumberAlphabet, MaxNumberLen) \cup {TestIntText, TestFloatText}

InitNumber ==
    /\ pc = "ready"
    /\ source \in NumberTexts
    /\ value = Null
    /\ result = NoResult
    /\ rendered = <<>>
    /\ twin = <<>>
    /\ twinResult = NoResult
    /\ members = <<>>
    /\ string = <<>>
    /\ escaped = <<>>
    /\ unescaped = NoResult
    /\ receiver = Null
    /\ argument = Null
    /\ outcome = NoResult
    /\ measured = 0
    /\ input = <<>>
    /\ cursor = 0
    /\ frames = <<>>

NextNumber == FromStr \/ Render

SpecNumber == InitNumber /\ [][NextNumber]_vars

\* Is text an integer literal in canonical form: an optional '-', then
\* digits without a leading zero (or the single digit 0)?
IsIntegerText(text) ==
    LET neg == text # <<>> /\ text[1] = MINUS
        digs == IF neg THEN Tail(text) ELSE text
    IN  /\ digs # <<>>
        /\ \A i \in 1..Len(digs) : IsDigit(digs[i])
        /\ digs[1] = Ch0 => (Len(digs) = 1 /\ ~neg)

\* The i64 an integer literal denotes.
IntegerOf(text) ==
    LET neg == text[1] = MINUS
        digs == IF neg THEN Tail(text) ELSE text
    IN  I64(neg, StripLeadingZeros([i \in 1..Len(digs) |-> digs[i] - Ch0]))

\* Does the i64 lie in -9223372036854775808 .. 9223372036854775807?
InI64Range(i) ==
    \/ DecCmp(i.digits, I64Max.digits) <= 0
    \/ i.neg /\ i.digits = DecAdd(I64Max.digits, <<1>>)

\* C7: an integer literal in the i64 range parses to the Int variant with
\* exactly that value and to_string of it gives the literal's digits back; a
\* literal with a fraction parses to the Float variant.
C7_IntegerLiterals ==
    pc = "rendered" =>
        /\ (IsIntegerText(source) /\ InI64Range(IntegerOf(source))) =>
                /\ result.val = Number(NumberInt(IntegerOf(source)))
                /\ rendered = source
        /\ (\E i \in 1..Len(source) : source[i] = DOT) =>
                result.val.num.variant = "Float"

(***************************************************************************)
(* SpecUnicodeEscape: unescape_string on a backslash-u escape followed by  *)
(* four chars, between two runs of plain chars.                            *)
(***************************************************************************)
MaxAffixLen == 1

Ch7 == Ch0 + 7
Chd == Cha + 3

\* Digits that reach both ends of the surrogate range, a digit of each case,
\* the chars next to the digit ranges, and a char outside ASCII.
QuadAlphabet == {Ch0, Ch7, Ch8, ChD, Chd, ChE, ChF, Chf, ChG, SLASH, COLON, 233}

Affixes == StringsUpTo({Cha}, MaxAffixLen)

InitUnicodeEscape ==
    /\ pc = "start"
    /\ \E prefix \in Affixes, suffix \in Affixes, quad \in [1..4 -> QuadAlphabet] :
          /\ argument = [prefix |-> prefix, quad |-> quad, suffix |-> suffix]
          /\ string = prefix \o <<BACKSLASH, Chu>> \o quad \o suffix
    /\ value = Null
    /\ source = <<>>
    /\ result = NoResult
    /\ rendered = <<>>
    /\ twin = <<>>
    /\ twinResult = NoResult
    /\ members = <<>>
    /\ escaped = <<>>
    /\ unescaped = NoResult
    /\ receiver = Null
    /\ outcome = NoResult
    /\ measured = 0
    /\ input = <<>>
    /\ cursor = 0
    /\ frames = <<>>

NextUnicodeEscape == Unescape

SpecUnicodeEscape == InitUnicodeEscape /\ [][NextUnicodeEscape]_vars

\* The hexadecimal digits, by value: "0123456789abcdef" and "0123456789ABCDEF".
LowerHexDigits == <<48, 49, 50, 51, 52, 53, 54, 55, 56, 57, 97, 98, 99, 100, 101, 102>>
UpperHexDigits == <<48, 49, 50, 51, 52, 53, 54, 55, 56, 57, 65, 66, 67, 68, 69, 70>>

IsHexDigit(c) == \E v \in 1..16 : LowerHexDigits[v] = c \/ UpperHexDigits[v] = c

HexDigitValue(c) ==
    (CHOOSE v \in 1..16 : LowerHexDigits[v] = c \/ UpperHexDigits[v] = c) - 1

QuadValue(q) ==
    4096 * HexDigitValue(q[1]) + 256 * HexDigitValue(q[2])
        + 16 * HexDigitValue(q[3]) + HexDigitValue(q[4])

IsSurrogate(v) == v >= 55296 /\ v <= 57343

\* C11: in unescape_string, a backslash-u followed by four chars fails with
\* InvalidHex if one of the four is no hex digit; otherwise it fails with
\* InvalidEscapeSequence exactly when 4096*h3 + 256*h2 + 16*h1 + h0 is a
\* surrogate, and otherwise stands for the one char with that code point.
C11_UnicodeEscape ==
    pc = "decoded" =>
        LET q == argument.quad
        IN  IF \E k \in 1..4 : ~IsHexDigit(q[k])
            THEN unescaped = Err("InvalidHex")
            ELSE IF IsSurrogate(QuadValue(q))
            THEN unescaped = Err("InvalidEscapeSequence")
            ELSE unescaped = Ok(argument.prefix \o <<QuadValue(q)>> \o argument.suffix)

C11_Witness ==
    /\ pc = "decoded"
    /\ argument.quad = <<Chd, Ch7, ChF, Chf>>
    /\ argument.prefix # <<>>
    /\ unescaped.ok


(***************************************************************************)
(* SpecAccess: push, insert, read-indexing and write-indexing on a value.  *)
(* A read-index may be applied again to the value the last one returned.   *)
(***************************************************************************)
MaxItems == 2

Chc == Cha + 2

AccessKeys == { <<Cha>>, <<Chb>>, <<Chc>> }

AccessIndices == 0..MaxItems

AccessArguments == {Usize(i) : i \in AccessIndices} \cup {Str(k) : k \in AccessKeys}

AccessScalars ==
    { Null, Boolean(TRUE), Number(NumberInt(I64(FALSE, <<1>>))), String(<<Cha>>) }

AccessElements ==
    AccessScalars
    \cup { Array(<<>>), Array(<<Boolean(FALSE)>>),
           Object(<<>>), Object(<<Entry(<<Cha>>, String(<<Chb>>))>>) }

AccessKeySeqs(m) ==
    {ks \in [1..m -> {<<Cha>>, <<Chb>>}] : \A i, j \in 1..m : i # j => ks[i] # ks[j]}

Receivers ==
    AccessElements
    \cup UNION {{Array(items) : items \in [1..m -> AccessElements]} : m \in 1..MaxItems}
    \cup UNION {{Object([i \in 1..m |-> Entry(ks[i], vs[i])]) :
                    ks \in AccessKeySeqs(m), vs \in [1..m -> AccessElements]} :
                m \in 1..MaxItems}

InitAccess ==
    /\ pc = "start"
    /\ value \in Receivers
    /\ source = <<>>
    /\ result = NoResult
    /\ rendered = <<>>
    /\ twin = <<>>
    /\ twinResult = NoResult
    /\ members = <<>>
    /\ string = <<>>
    /\ escaped = <<>>
    /\ unescaped = NoResult
    /\ receiver = value
    /\ argument = Null
    /\ outcome = NoResult
    /\ measured = 0
    /\ input = <<>>
    /\ cursor = 0
    /\ frames = <<>>

\* value.push(v).
Push ==
    /\ pc = "start"
    /\ \E v \in AccessElements :
          /\ argument' = v
          /\ receiver' = push(value, v).self
          /\ outcome' = push(value, v).ret
    /\ pc' = "pushed"
    /\ UNCHANGED <<value, source, result, rendered, twin, twinResult, members,
                   string, escaped, unescaped, measured, parserVars>>

\* value.insert(k, v).
Insert ==
    /\ pc = "start"
    /\ \E k \in AccessKeys, v \in AccessElements :
          /\ argument' = Entry(k, v)
          /\ receiver' = insert(value, k, v).self
          /\ outcome' = insert(value, k, v).ret
    /\ pc' = "inserted"
    /\ UNCHANGED <<value, source, result, rendered, twin, twinResult, members,
                   string, escaped, unescaped, measured, parserVars>>

\* &value[i_k], or the same on the value the last read-index returned.
Index ==
    /\ pc \in {"start", "indexed"}
    /\ \E i_k \in AccessArguments :
          LET self == IF pc = "start" THEN value ELSE outcome.val
          IN  /\ argument' = i_k
              /\ receiver' = self
              /\ outcome' = Ok(value_index(self, i_k))
    /\ pc' = "indexed"
    /\ UNCHANGED <<value, source, result, rendered, twin, twinResult, members,
                   string, escaped, unescaped, measured, parserVars>>

\* &mut value[i_k].
IndexMut ==
    /\ pc = "start"
    /\ \E i_k \in AccessArguments :
          /\ argument' = i_k
          /\ receiver' = index_mut(value, i_k).self
          /\ outcome' = index_mut(value, i_k).ret
    /\ pc' = "indexed_mut"
    /\ UNCHANGED <<value, source, result, rendered, twin, twinResult, members,
                   string, escaped, unescaped, measured, parserVars>>

NextAccess == Push \/ Insert \/ Index \/ IndexMut

SpecAccess == InitAccess /\ [][NextAccess]_vars

\* Every entry of the object before, but the one under key, is in the object
\* after with the same value, and after has no key but those and key.
OtherEntriesKept(before, after, key) ==
    /\ MapKeys(after) = MapKeys(before) \cup {key}
    /\ Len(after) = Cardinality(MapKeys(after))
    /\ \A i \in 1..Len(before) :
          before[i].key # key => map_get(after, before[i].key) = Some(before[i].value)

C12_WitnessPush ==
    /\ pc = "pushed"
    /\ value.type = "Object"
    /\ value.entries # <<>>
    /\ outcome = Panic

\* C13: write-indexing with a string key on an object without the key adds
\* the key with Null and keeps every other entry; with a key the object holds
\* it returns the value there and changes nothing; on Null it first makes an
\* empty object.  Write-indexing with an integer fails when the index is out
\* of range or the receiver is no array, and never grows the array nor
\* converts a Null receiver.
C13_IndexMut ==
    (pc = "indexed_mut") =>
        IF argument.kind = "str"
        THEN CASE value.type = "Object" /\ argument.key \in MapKeys(value.entries) ->
                      /\ outcome = Ok(map_get(value.entries, argument.key).v)
                      /\ receiver = value
               [] value.type = "Object" /\ argument.key \notin MapKeys(value.entries) ->
                      /\ outcome = Ok(Null)
                      /\ receiver.type = "Object"
                      /\ map_get(receiver.entries, argument.key) = Some(Null)
                      /\ OtherEntriesKept(value.entries, receiver.entries, argument.key)
               [] value.type = "Null" ->
                      /\ outcome = Ok(Null)
                      /\ receiver = Object(<<Entry(argument.key, Null)>>)
               [] OTHER -> TRUE
        ELSE /\ receiver = value
             /\ IF value.type = "Array" /\ argument.i < Len(value.items)
                THEN outcome = Ok(value.items[argument.i + 1])
                ELSE outcome = Panic

C13_Witness ==
    /\ pc = "indexed_mut"
    /\ argument.kind = "str"
    /\ value.type = "Object"
    /\ Len(value.entries) = 2
    /\ argument.key \notin MapKeys(value.entries)

C13_WitnessIndex ==
    /\ pc = "indexed_mut"
    /\ argument.kind = "usize"
    /\ value.type = "Array"
    /\ argument.i = Len(value.items)
    /\ argument.i > 0
    /\ outcome = Panic

\* C14: read-indexing never fails and changes nothing: it returns the element
\* of an array at an index in range, or the value of an object under a key it
\* holds, and Null in every other case, so a lookup chained through a missing
\* level returns Null.
C14_Index ==
    (pc = "indexed") =>
        /\ outcome.ok
        /\ outcome.val =
              (IF argument.kind = "usize" /\ receiver.type = "Array"
                    /\ argument.i < Len(receiver.items)
               THEN receiver.items[argument.i + 1]
               ELSE IF argument.kind = "str" /\ receiver.type = "Object"
                    /\ argument.key \in MapKeys(receiver.entries)
               THEN (CHOOSE e \in {receiver.entries[i] : i \in 1..Len(receiver.entries)} :
                        e.key = argument.key).value
               ELSE Null)

\* A lookup on the Null that a lookup of an absent key returned.
C14_Witness ==
    /\ pc = "indexed"
    /\ value.type = "Object"
    /\ value.entries # <<>>
    /\ receiver = Null
    /\ argument.kind = "usize"
    /\ outcome = Ok(Null)
    /\ \A i \in 1..Len(value.entries) : value.entries[i].value # Null


(***************************************************************************)
(* SpecPretty: a value is rendered, compactly or with one of the pretty    *)
(* settings, and the text parsed back.                                     *)
(***************************************************************************)
Indents == { Spaces(0), Spaces(2), Tabs(1) }

\* value.pretty_print_format(indent, spacing).to_string() becomes the text
\* to parse.
PrettyPrint ==
    /\ pc = "start"
    /\ \E indent \in Indents, spacing \in BOOLEAN :
          /\ argument' = [indent |-> indent, spacing |-> spacing]
          /\ source' = pretty_print_format(value, indent, spacing)
    /\ pc' = "ready"
    /\ UNCHANGED <<value, result, rendered, twin, twinResult, members, string,
                   escaped, unescaped, receiver, outcome, measured, parserVars>>

\* Trees whose strings and keys hold the bytes a rendering separates
\* entries with.
PunctuatedValues ==
    { Array(<<String(<<COMMA, RBRACKET>>), String(<<QUOTE, COMMA>>)>>),
      Object(<<Entry(<<COMMA, QUOTE>>, Array(<<>>)), Entry(<<LBRACE>>, Object(<<>>))>>),
      Array(<<Array(<<Null, Null, Null>>), Object(<<>>), Array(<<>>)>>) }

PrettyLeaves ==
    { Null, Boolean(TRUE),
      Number(NumberFloat(F64Finite(FALSE, <<2, 5>>, -1))),
      Number(NumberInt(I64(TRUE, <<4, 2>>))),
      String(<<US, 233, LF>>) }

RECURSIVE LeavesIn(_, _)
\* Is every scalar of the tree one of leaves?
LeavesIn(v, leaves) ==
    CASE v.type = "Array" -> \A i \in 1..Len(v.items) : LeavesIn(v.items[i], leaves)
      [] v.type = "Object" ->
            \A i \in 1..Len(v.entries) : LeavesIn(v.entries[i].value, leaves)
      [] OTHER -> v \in leaves

PrettyValues == {v \in Values : LeavesIn(v, PrettyLeaves)} \cup PunctuatedValues

InitPretty ==
    /\ pc = "start"
    /\ value \in PrettyValues
    /\ source = <<>>
    /\ result = NoResult
    /\ rendered = <<>>
    /\ twin = <<>>
    /\ twinResult = NoResult
    /\ members = <<>>
    /\ string = <<>>
    /\ escaped = <<>>
    /\ unescaped = NoResult
    /\ receiver = Null
    /\ argument = Null
    /\ outcome = NoResult
    /\ measured = 0
    /\ input = <<>>
    /\ cursor = 0
    /\ frames = <<>>

NextPretty == Display \/ PrettyPrint \/ FromStr

SpecPretty == InitPretty /\ [][NextPretty]_vars

\* Was source written by PrettyPrint?
IsPretty == argument # Null

\* C15: a value without NaN or infinities, rendered with any pretty setting
\* and parsed back with from_str, comes back Ok and structurally equal.
C15_PrettyRoundTrip ==
    (pc = "parsed" /\ IsPretty /\ ~HasNonFinite(value)) =>
        (result.ok /\ ValueEq(result.val, value))

\* The same for the trees whose numbers are all finite floats.
PrettyRoundTripOfFloats ==
    (pc = "parsed" /\ IsPretty /\ ~HasNonFinite(value) /\ ~HasInt(value)) =>
        (result.ok /\ ValueEq(result.val, value))

\* An empty array inside an object, pretty-printed with tabs, parsed back.
PrettyRoundTripReached ==
    /\ pc = "parsed"
    /\ IsPretty
    /\ argument.indent = Tabs(1)
    /\ value.type = "Object"
    /\ Len(value.entries) = 1
    /\ value.entries[1].value = Array(<<>>)
    /\ result.ok

\* The quotes of a rendering that open or close a string literal: those
\* with an even number of backslashes right before them.
LiteralQuotes(text) ==
    {j \in 1..Len(text) :
        /\ text[j] = QUOTE
        /\ MaxOf({k \in 0..(j - 1) : \A m \in 1..k : text[j - m] = BACKSLASH}) % 2 = 0}

\* The positions of a rendering outside its string literals that hold no
\* white space; of a literal, the position of its opening quote is one.
StructuralPositions(text, quotes) ==
    {i \in 1..Len(text) :
        /\ Cardinality({j \in quotes : j < i}) % 2 = 0
        /\ text[i] \notin {SPACE, TAB, LF, CR}}

\* The bytes at the positions, in order.
BytesAt(text, positions) ==
    [r \in 1..Cardinality(positions) |->
        text[CHOOSE i \in positions : Cardinality({j \in positions : j < i}) = r - 1]]

\* The bytes of a rendering that lie outside its string literals and are no
\* white space; a literal leaves its opening quote.
Skeleton(text) == BytesAt(text, StructuralPositions(text, LiteralQuotes(text)))

Opening == {LBRACKET, LBRACE}
Closing == {RBRACKET, RBRACE}

\* How many containers are open just before position i of the skeleton.
DepthBefore(sk, i) ==
    Cardinality({j \in 1..(i - 1) : sk[j] \in Opening})
        - Cardinality({j \in 1..(i - 1) : sk[j] \in Closing})

\* The position that closes the container opened at position i.
ClosingOf(sk, i) ==
    MinOf({j \in (i + 1)..Len(sk) :
              sk[j] \in Closing /\ DepthBefore(sk, j + 1) = DepthBefore(sk, i)})

\* The commas written for the container opened at position i itself.
CommasOf(sk, i) ==
    Cardinality({k \in i..ClosingOf(sk, i) :
                    sk[k] = COMMA /\ DepthBefore(sk, k) = DepthBefore(sk, i) + 1})

\* The comma count of every container of the rendering, in the order the
\* containers open.
CommaCounts(sk) ==
    LET opens == {i \in 1..Len(sk) : sk[i] \in Opening}
        nth(n) == CHOOSE i \in opens : Cardinality({o \in opens : o < i}) = n - 1
    IN  [n \in 1..Cardinality(opens) |-> CommasOf(sk, nth(n))]

RECURSIVE SeparatorsOwed(_)
\* For every container of the tree, in the order the writer meets them:
\* entries - 1, or 0 for an empty one.
SeparatorsOwed(v) ==
    CASE v.type = "Array" ->
            <<IF Len(v.items) = 0 THEN 0 ELSE Len(v.items) - 1>>
            \o Concat([i \in 1..Len(v.items) |-> SeparatorsOwed(v.items[i])])
      [] v.type = "Object" ->
            <<IF Len(v.entries) = 0 THEN 0 ELSE Len(v.entries) - 1>>
            \o Concat([i \in 1..Len(v.entries) |-> SeparatorsOwed(v.entries[i].value)])
      [] OTHER -> <<>>

\* C16: every rendering, compact or pretty, writes for each array or object
\* of n entries n - 1 commas when n >= 1 and none when n = 0, and no comma
\* right after an opening bracket or right before a closing one.
C16_Separators ==
    (pc = "ready") =>
        LET sk == Skeleton(source)
        IN  /\ CommaCounts(sk) = SeparatorsOwed(value)
            /\ \A i \in 1..Len(sk) :
                  sk[i] = COMMA =>
                      /\ i > 1 /\ sk[i - 1] \notin Opening
                      /\ i < Len(sk) /\ sk[i + 1] \notin Closing

C16_Witness ==
    /\ pc = "ready"
    /\ IsPretty
    /\ value = Array(<<Array(<<Null, Null, Null>>), Object(<<>>), Array(<<>>)>>)


(***************************************************************************)
(* SpecMeasure: escape_string and measure_escaped_string on one string.    *)
(***************************************************************************)
\* measure_escaped_string(string).
MeasureEscapedString ==
    /\ pc = "escaped"
    /\ measured' = measure_escaped_string(string)
    /\ pc' = "measured"
    /\ UNCHANGED <<value, source, result, rendered, twin, twinResult, members,
                   string, escaped, unescaped, receiver, argument, outcome,
                   parserVars>>

\* The chars at both ends of each UTF-8 length: U+007F, U+0080, U+07FF,
\* U+0800, U+FFFF, U+10000, U+10FFFF.
WideChars == {127, 128, 2047, 2048, 65535, 65536, 1114111}

MeasureStrings ==
    CodecStrings
    \cup {<<c>> : c \in WideChars}
    \cup {<<c, d>> : c \in WideChars, d \in CodecAlphabet}

InitMeasure ==
    /\ pc = "start"
    /\ string \in MeasureStrings
    /\ value = Null
    /\ source = <<>>
    /\ result = NoResult
    /\ rendered = <<>>
    /\ twin = <<>>
    /\ twinResult = NoResult
    /\ members = <<>>
    /\ escaped = <<>>
    /\ unescaped = NoResult
    /\ receiver = Null
    /\ argument = Null
    /\ outcome = NoResult
    /\ measured = 0
    /\ input = <<>>
    /\ cursor = 0
    /\ frames = <<>>

NextMeasure == EscapeString \/ MeasureEscapedString

SpecMeasure == InitMeasure /\ [][NextMeasure]_vars

\* The escaped width of a char: 2 for backslash, quote, \n, \r, \t, U+0008
\* and U+000C, 6 for the other chars up to U+001F, else the UTF-8 length.
EscapedWidth(c) ==
    IF c \in {BACKSLASH, QUOTE, LF, CR, TAB, BS, FF} THEN 2
    ELSE IF c <= US THEN 6
    ELSE IF c <= 127 THEN 1
    ELSE IF c <= 2047 THEN 2
    ELSE IF c <= 65535 THEN 3
    ELSE 4

RECURSIVE SumWidths(_, _)
SumWidths(s, i) == IF i > Len(s) THEN 0 ELSE EscapedWidth(s[i]) + SumWidths(s, i + 1)

\* C17: measure_escaped_string(s) is the byte length of escape_string(s),
\* the sum of the escaped widths of the chars of s.
C17_MeasureEscaped ==
    (pc = "measured") =>
        /\ measured = Len(as_bytes(escaped))
        /\ measured = SumWidths(string, 1)

C17_Witness ==
    /\ pc = "measured"
    /\ Len(string) = 2
    /\ string[1] = 65536
    /\ string[2] = US
    /\ measured = 10


(***************************************************************************)
(* SpecScan: Parser::parse_number at the head of a text that begins with   *)
(* a sign or a digit, as parse_value calls it.                             *)
(***************************************************************************)
MaxScanLen == 5

ScanAlphabet == {MINUS, PLUS, Ch1, DOT, Che, COMMA, SPACE}

\* Texts longer than the bound: every boundary byte, an upper-case exponent
\* marker, a byte the scan rejects.
LongScanTexts ==
    { <<MINUS, Ch1, DOT, Ch1, Che, PLUS, Ch1, RBRACE, Ch1>>,
      <<PLUS, Ch1, ChE, MINUS, Ch1, RBRACKET, Chx>>,
      <<Ch1, DOT, Ch1, ChE, Ch1, TAB>>,
      <<Ch1, Ch1, Che, Ch1, FF, LF>>,
      <<Ch1, DOT, Ch1, Ch1, CR, LF>>,
      <<Ch1, DOT, Ch1, Che, Ch1, Chx>> }

ScanTexts ==
    {t \in StringsUpTo(ScanAlphabet, MaxScanLen) \cup LongScanTexts :
        t # <<>> /\ (t[1] \in {PLUS, MINUS} \/ IsDigit(t[1]))}

InitScan ==
    /\ pc = "ready"
    /\ source \in ScanTexts
    /\ value = Null
    /\ result = NoResult
    /\ rendered = <<>>
    /\ twin = <<>>
    /\ twinResult = NoResult
    /\ members = <<>>
    /\ string = <<>>
    /\ escaped = <<>>
    /\ unescaped = NoResult
    /\ receiver = Null
    /\ argument = Null
    /\ outcome = NoResult
    /\ measured = 0
    /\ input = <<>>
    /\ cursor = 0
    /\ frames = <<>>

\* What parse_number leaves behind, given what its loop returned: the index,
\* the text it handed to str::parse::<f64> if it did, and its result.
NumberScanned(bytes, scan) ==
    /\ cursor' = IF scan.ok THEN scan.index ELSE cursor
    /\ argument' = IF scan.ok /\ scan.index # 0
                    THEN Some(SubSeq(bytes, 1, scan.index))
                    ELSE None
    /\ outcome' = number_after_scan(bytes, 0, scan)

\* Parser::parse_number with the parser at index 0 of source.
ParseNumber ==
    /\ pc = "ready"
    /\ NumberScanned(as_bytes(source),
           number_scan(as_bytes(source), number_after_sign(as_bytes(source), 0),
                       FALSE, FALSE, FALSE))
    /\ pc' = "scanned"
    /\ UNCHANGED <<value, source, result, rendered, twin, twinResult, members,
                   string, escaped, unescaped, receiver, measured, input, frames>>

NextScan == ParseNumber

SpecScan == InitScan /\ [][NextScan]_vars

ExponentMarkers == {Che, ChE}

\* The bytes that end a number: '}', ']', ',' and white space, form feed
\* being white space to the scanner.
ScanBoundaries == {RBRACE, RBRACKET, COMMA} \cup JsonWhitespace \cup {FF}

\* An optional sign, then digits with at most one '.', after a digit and
\* before any exponent marker, and at most one exponent marker, after a
\* digit, with at most one sign right after it.
NumberShaped(m) ==
    LET first == IF m # <<>> /\ m[1] \in {PLUS, MINUS} THEN 2 ELSE 1
        body == first..Len(m)
        DigitBefore(i) == \E j \in body : j < i /\ IsDigit(m[j])
    IN  /\ \A i \in body :
              IsDigit(m[i]) \/ m[i] = DOT \/ m[i] \in ExponentMarkers
                  \/ m[i] \in {PLUS, MINUS}
        /\ Cardinality({i \in body : m[i] = DOT}) <= 1
        /\ Cardinality({i \in body : m[i] \in ExponentMarkers}) <= 1
        /\ \A i \in body :
              m[i] = DOT =>
                  DigitBefore(i) /\ ~\E j \in body : j < i /\ m[j] \in ExponentMarkers
        /\ \A i \in body : m[i] \in ExponentMarkers => DigitBefore(i)
        /\ \A i \in body :
              m[i] \in {PLUS, MINUS} => i > first /\ m[i - 1] \in ExponentMarkers

\* C18: the text parse_number hands to the float parser is an optional sign,
\* then digits, at most one '.' (after a digit, before any exponent marker)
\* and at most one exponent marker (after a digit, with an optional sign);
\* the boundary byte that ended the scan is not in it and is the next byte
\* to be read.
C18_NumberScan ==
    (pc = "scanned" /\ argument.some) =>
        /\ NumberShaped(argument.v)
        /\ argument.v = SubSeq(as_bytes(source), 1, cursor)
        /\ cursor <= Len(source)
        /\ cursor < Len(source) => as_bytes(source)[cursor + 1] \in ScanBoundaries

C18_Witness ==
    /\ pc = "scanned"
    /\ source = <<MINUS, Ch1, DOT, Ch1, Che, PLUS, Ch1, RBRACE, Ch1>>
    /\ argument = Some(<<MINUS, Ch1, DOT, Ch1, Che, PLUS, Ch1>>)
    /\ outcome.ok
    /\ cursor = 7


(***************************************************************************)
(* SpecParser: Value::from_str step by step.  cursor is Parser.index and   *)
(* frames the calls in progress, innermost last.  A frame holds the        *)
(* function, the point it has reached, and for a scanning loop the number  *)
(* of the pass it is in and the index at which that pass began.  The       *)
(* values parsed are left out; what decides the path is kept.              *)
(*                                                                         *)
(* Points.  from_str: F0 eat_whitespace, F1 parse_value, F2 eat_whitespace,*)
(* F3 is_eof.  parse_array: A0 '[', A1 head of the loop, A2 peek, A3 after *)
(* the element, A4 separator.  parse_object: O0 '{', O1 head of the loop,  *)
(* O2 peek, O3 after the key, O4 ':', O5 after ':', O6 the value, O7 after *)
(* the value, O8 separator.  parse_number: N0 sign, N1 indexed_next, N2    *)
(* the match on the byte, N3 after the loop.  parse_string: S0 opening     *)
(* quote, S1 the loop.                                                     *)
(***************************************************************************)
MaxTextLen == 4

ParserAlphabet == {LBRACKET, RBRACKET, LBRACE, RBRACE, COMMA, QUOTE, Ch1, SPACE}

\* {"a" : [1, -2.5e+3 ,"x\n\u0041"], "b":{}, }
ObjectDocument ==
    <<LBRACE, QUOTE, Cha, QUOTE, SPACE, COLON, SPACE, LBRACKET, Ch1, COMMA, SPACE,
      MINUS, 50, DOT, 53, Che, PLUS, 51, SPACE, COMMA, QUOTE, Chx, BACKSLASH, Chn,
      BACKSLASH, Chu, Ch0, Ch0, Ch4, Ch1, QUOTE, RBRACKET, COMMA, SPACE, QUOTE,
      Chb, QUOTE, COLON, LBRACE, RBRACE, COMMA, SPACE, RBRACE>>

\* A text with every keyword, a char of two bytes, and white space around
\* every token:  [ null , true,false, [ ] ,"e" , ]  with e acute for e.
ArrayDocument ==
    <<SPACE, LBRACKET, SPACE, Chn, Chu, 108, 108, SPACE, COMMA, SPACE, Cht, Chr,
      Chu, Che, COMMA, Chf, Cha, 108, 115, Che, COMMA, SPACE, LBRACKET, SPACE,
      RBRACKET, SPACE, COMMA, QUOTE, 233, QUOTE, SPACE, COMMA, SPACE, RBRACKET,
      SPACE>>

\* Texts that fail in the middle of a token.
BrokenTexts ==
    { <<LBRACKET, Ch1, Che, RBRACKET>>,                    \* [1e]
      <<LBRACKET, MINUS, COMMA, Ch1, RBRACKET>>,           \* [-,1]
      <<LBRACKET, Ch1, Chx, RBRACKET>>,                    \* [1x]
      <<QUOTE, BACKSLASH, Chu, Ch0, ChG, QUOTE>>,          \* "\u0G"
      <<QUOTE, BACKSLASH, Chu, ChD, Ch8, Ch0, Ch0, QUOTE>>, \* "\uD800"
      <<QUOTE, Cha, LF, QUOTE>>,                           \* a raw line feed
      <<LBRACE, QUOTE, Cha, QUOTE, Ch1, RBRACE>>,          \* {"a"1}
      <<LBRACE, QUOTE, Cha, QUOTE, COLON, Ch1, Ch1, Chx>>, \* {"a":11x
      <<Chn, Chu, 108, 233>>,                              \* nul and a two-byte char
      <<Cht, Chr, Chu, Chx>>,                              \* trux
      <<Ch1, SPACE, Ch1>> }                                \* 1 1

Prefixes(text) == {SubSeq(text, 1, k) : k \in 0..Len(text)}

ParserTexts ==
    StringsUpTo(ParserAlphabet, MaxTextLen)
    \cup Prefixes(ObjectDocument) \cup Prefixes(ArrayDocument) \cup BrokenTexts

InitParser ==
    /\ pc = "ready"
    /\ source \in ParserTexts
    /\ value = Null
    /\ result = NoResult
    /\ rendered = <<>>
    /\ twin = <<>>
    /\ twinResult = NoResult
    /\ members = <<>>
    /\ string = <<>>
    /\ escaped = <<>>
    /\ unescaped = NoResult
    /\ receiver = Null
    /\ argument = Null
    /\ outcome = NoResult
    /\ measured = 0
    /\ input = <<>>
    /\ cursor = 0
    /\ frames = <<>>

\* A call in progress: pass and begin count for the scanning loops, start is
\* the start of parse_number and parse_string, the flags and next are locals
\* of parse_number.
Frame(fn, at, begin) ==
    [fn |-> fn, at |-> at, pass |-> 1, begin |-> begin, start |-> begin,
     found_e |-> FALSE, found_dot |-> FALSE, found_num |-> FALSE, next |-> NUL]

Top == frames[Len(frames)]

\* The frames with the innermost one replaced.
Replaced(f) == [frames EXCEPT ![Len(frames)] = f]

\* The innermost frame moves to point at and calls fn.
Called(at, fn, entry) ==
    Append(Replaced([Top EXCEPT !.at = at]), Frame(fn, entry, cursor))

\* The innermost frame returns.
Returned == SubSeq(frames, 1, Len(frames) - 1)

\* The innermost frame, a loop, goes to point at to begin its next pass at
\* index.
NextPass(f, at, index) ==
    Replaced([f EXCEPT !.at = at, !.pass = @ + 1, !.begin = index])

\* The parser goes on at index with the frames fs.
Goes(index, fs) ==
    /\ cursor' = index
    /\ frames' = fs
    /\ pc' = "running"
    /\ UNCHANGED outcome

\* An Err is returned through every frame by the ? operator.
Fails(index, err) ==
    /\ cursor' = index
    /\ frames' = <<>>
    /\ pc' = "done"
    /\ outcome' = err

\* from_str returns Ok.
Succeeds ==
    /\ UNCHANGED cursor
    /\ frames' = <<>>
    /\ pc' = "done"
    /\ outcome' = [ok |-> TRUE]

ParserFrame ==
    UNCHANGED <<value, source, result, rendered, twin, twinResult, members, string,
                escaped, unescaped, receiver, argument, measured, input>>

\* Parser::new(s).
Begin ==
    /\ pc = "ready"
    /\ input' = as_bytes(source)
    /\ Goes(0, <<Frame("from_str", "F0", 0)>>)
    /\ UNCHANGED <<value, source, result, rendered, twin, twinResult, members, string,
                   escaped, unescaped, receiver, argument, measured>>

\* One statement of from_str.
FromStrStep ==
    /\ pc = "running"
    /\ Top.fn = "from_str"
    /\ CASE Top.at = "F0" -> Goes(cursor, Called("F1", "eat_whitespace", "W"))
         [] Top.at = "F1" -> Goes(cursor, Called("F2", "parse_value", "V"))
         [] Top.at = "F2" -> Goes(cursor, Called("F3", "eat_whitespace", "W"))
         [] Top.at = "F3" ->
               IF cursor < Len(input)
               THEN Fails(cursor, ErrAt("InvalidCharacter", cursor))
               ELSE Succeeds
    /\ ParserFrame

\* One pass of the loop of eat_whitespace.
EatWhitespacePass ==
    /\ pc = "running"
    /\ Top.fn = "eat_whitespace"
    /\ LET p == peek(input, cursor)
       IN  IF p.some /\ is_ascii_whitespace(p.v)
           THEN Goes(cursor + 1, NextPass(Top, "W", cursor + 1))
           ELSE Goes(cursor, Returned)
    /\ ParserFrame

\* What parse_value does once a keyword parser has returned r.
KeywordParsed(r) ==
    IF r.ok THEN Goes(r.index, Returned) ELSE Fails(cursor, r)

\* parse_value: the match on self.peek(); the arm's parser takes its place.
ParseValueStep ==
    /\ pc = "running"
    /\ Top.fn = "parse_value"
    /\ LET bytes == input
           p == peek(bytes, cursor)
       IN  IF ~p.some THEN Fails(cursor, Err("UnexpectedEOF"))
           ELSE CASE p.v \in {Cht, Chf} -> KeywordParsed(parse_boolean(bytes, cursor))
                  [] p.v = Chn -> KeywordParsed(parse_null(bytes, cursor))
                  [] p.v = QUOTE ->
                        Goes(cursor, Replaced(Frame("parse_string", "S0", cursor)))
                  [] p.v = LBRACE ->
                        Goes(cursor, Replaced(Frame("parse_object", "O0", cursor)))
                  [] p.v = LBRACKET ->
                        Goes(cursor, Replaced(Frame("parse_array", "A0", cursor)))
                  [] p.v \in {PLUS, MINUS} \/ IsDigit(p.v) ->
                        Goes(cursor, Replaced(Frame("parse_number", "N0", cursor)))
                  [] OTHER -> Fails(cursor, ErrAt("InvalidCharacter", cursor))
    /\ ParserFrame

\* One statement of parse_array.
ParseArrayStep ==
    /\ pc = "running"
    /\ Top.fn = "parse_array"
    /\ LET p == peek(input, cursor)
       IN  CASE Top.at = "A0" ->
                   IF ~p.some THEN Fails(cursor, Err("UnexpectedEOF"))
                   ELSE IF p.v = LBRACKET
                   THEN Goes(cursor + 1,
                             Replaced([Top EXCEPT !.at = "A1", !.begin = cursor + 1]))
                   ELSE Fails(cursor + 1, ErrAt("InvalidCharacter", cursor))
             [] Top.at = "A1" -> Goes(cursor, Called("A2", "eat_whitespace", "W"))
             [] Top.at = "A2" ->
                   IF ~p.some THEN Fails(cursor, Err("UnexpectedEOF"))
                   ELSE IF p.v = RBRACKET THEN Goes(cursor + 1, Returned)
                   ELSE Goes(cursor, Called("A3", "parse_value", "V"))
             [] Top.at = "A3" -> Goes(cursor, Called("A4", "eat_whitespace", "W"))
             [] Top.at = "A4" ->
                   IF ~p.some THEN Fails(cursor, Err("UnexpectedEOF"))
                   ELSE IF p.v = RBRACKET THEN Goes(cursor + 1, Returned)
                   ELSE IF p.v = COMMA
                   THEN Goes(cursor + 1, NextPass(Top, "A1", cursor + 1))
                   ELSE Fails(cursor + 1, ErrAt("InvalidCharacter", cursor))
    /\ ParserFrame

\* One statement of parse_object.
ParseObjectStep ==
    /\ pc = "running"
    /\ Top.fn = "parse_object"
    /\ LET p == peek(input, cursor)
       IN  CASE Top.at = "O0" ->
                   IF ~p.some THEN Fails(cursor, Err("UnexpectedEOF"))
                   ELSE IF p.v = LBRACE
                   THEN Goes(cursor + 1,
                             Replaced([Top EXCEPT !.at = "O1", !.begin = cursor + 1]))
                   ELSE Fails(cursor + 1, ErrAt("InvalidCharacter", cursor))
             [] Top.at = "O1" -> Goes(cursor, Called("O2", "eat_whitespace", "W"))
             [] Top.at = "O2" ->
                   IF ~p.some THEN Fails(cursor, Err("UnexpectedEOF"))
                   ELSE IF p.v = QUOTE THEN Goes(cursor, Called("O3", "parse_string", "S0"))
                   ELSE IF p.v = RBRACE THEN Goes(cursor + 1, Returned)
                   ELSE Fails(cursor, ErrAt("InvalidCharacter", cursor))
             [] Top.at = "O3" -> Goes(cursor, Called("O4", "eat_whitespace", "W"))
             [] Top.at = "O4" ->
                   IF ~p.some THEN Fails(cursor, Err("UnexpectedEOF"))
                   ELSE IF p.v = COLON
                   THEN Goes(cursor + 1, Replaced([Top EXCEPT !.at = "O5"]))
                   ELSE Fails(cursor + 1, ErrAt("InvalidCharacter", cursor))
             [] Top.at = "O5" -> Goes(cursor, Called("O6", "eat_whitespace", "W"))
             [] Top.at = "O6" -> Goes(cursor, Called("O7", "parse_value", "V"))
             [] Top.at = "O7" -> Goes(cursor, Called("O8", "eat_whitespace", "W"))
             [] Top.at = "O8" ->
                   IF ~p.some THEN Fails(cursor, Err("UnexpectedEOF"))
                   ELSE IF p.v = COMMA
                   THEN Goes(cursor + 1, NextPass(Top, "O1", cursor + 1))
                   ELSE IF p.v = RBRACE THEN Goes(cursor + 1, Returned)
                   ELSE Fails(cursor + 1, ErrAt("InvalidCharacter", cursor))
    /\ ParserFrame

\* The end of parse_number, given what str::parse::<f64> returned.
NumberReturns(f) == IF f.ok THEN Goes(cursor, Returned) ELSE Fails(cursor, f)

\* One statement of parse_number; a pass of its loop is indexed_next (N1)
\* and the match on the byte it returned (N2).
ParseNumberStep ==
    /\ pc = "running"
    /\ Top.fn = "parse_number"
    /\ LET bytes == input
           p == peek(bytes, cursor)
           f == Top
       IN  CASE f.at = "N0" ->
                   LET after == number_after_sign(bytes, cursor)
                   IN  Goes(after, Replaced([f EXCEPT !.at = "N1", !.start = cursor,
                                                      !.begin = after]))
             [] f.at = "N1" ->
                   IF ~p.some THEN Goes(cursor, Replaced([f EXCEPT !.at = "N3"]))
                   ELSE Goes(cursor + 1, Replaced([f EXCEPT !.at = "N2", !.next = p.v]))
             [] f.at = "N2" ->
                   CASE IsDigit(f.next) ->
                           Goes(cursor, NextPass([f EXCEPT !.found_num = TRUE], "N1", cursor))
                     [] number_dot(f.next, f.found_e, f.found_dot, f.found_num) ->
                           Goes(cursor, NextPass([f EXCEPT !.found_dot = TRUE], "N1", cursor))
                     [] f.next \in {Che, ChE} /\ f.found_num /\ ~f.found_e ->
                           LET skip == IF p.some /\ p.v \in {PLUS, MINUS}
                                       THEN cursor + 1 ELSE cursor
                           IN  Goes(skip, NextPass([f EXCEPT !.found_e = TRUE], "N1", skip))
                     [] f.next \in {RBRACE, RBRACKET, COMMA} ->
                           Goes(rewind(cursor), Replaced([f EXCEPT !.at = "N3"]))
                     [] is_ascii_whitespace(f.next) ->
                           Goes(rewind(cursor), Replaced([f EXCEPT !.at = "N3"]))
                     [] OTHER -> Fails(cursor, ErrAt("InvalidCharacter", cursor - 1))
             [] f.at = "N3" ->
                   IF cursor - f.start # 0
                   THEN NumberReturns(from_str_f64(SubSeq(bytes, f.start + 1, cursor)))
                   ELSE Fails(cursor, ErrAt("InvalidCharacter", cursor))
    /\ ParserFrame

RECURSIVE hex_cursor(_, _, _)
\* The index the for loop of the \u branch leaves: after four hex digits,
\* after the first char that is none, or at the end of the text.
hex_cursor(bytes, index, i) ==
    IF i > 3 \/ index >= Len(bytes) THEN index
    ELSE LET digit == char_at(bytes, index)
         IN  IF ~hex_value(digit).some THEN index + len_utf8(digit)
             ELSE hex_cursor(bytes, index + len_utf8(digit), i + 1)

\* The \u branch of parse_string, given what its for loop returned.
UnicodeEscaped(f, h, index) ==
    IF ~h.ok THEN Fails(index, h)
    ELSE IF ~from_u32(h.hex).some THEN Fails(index, Err("InvalidEscapeSequence"))
    ELSE Goes(index, NextPass(f, "S1", index))

\* One statement of parse_string: the opening quote (S0), or one pass of
\* the loop (S1), which takes a char or a whole escape.
ParseStringStep ==
    /\ pc = "running"
    /\ Top.fn = "parse_string"
    /\ LET bytes == input
           p == peek(bytes, cursor)
           f == Top
       IN  CASE f.at = "S0" ->
                   IF ~p.some THEN Fails(cursor, Err("UnexpectedEOF"))
                   ELSE IF p.v # QUOTE THEN Fails(cursor, ErrAt("InvalidCharacter", cursor))
                   ELSE Goes(cursor + 1,
                             Replaced([f EXCEPT !.at = "S1", !.start = cursor + 1,
                                                !.begin = cursor + 1]))
             [] f.at = "S1" ->
                   IF ~p.some
                   THEN Fails(cursor, ErrAt("UnexpectedEOFWhileParsingString", f.start))
                   ELSE LET next == char_at(bytes, cursor)
                            after == cursor + len_utf8(next)
                        IN  IF string_line_break(next)
                            THEN Fails(after, ErrAt("LineBreakWhileParsingString", cursor))
                            ELSE IF next = QUOTE THEN Goes(after, Returned)
                            ELSE IF next # BACKSLASH THEN Goes(after, NextPass(f, "S1", after))
                            ELSE IF after >= Len(bytes) THEN Fails(after, Err("UnexpectedEOF"))
                            ELSE LET c == char_at(bytes, after)
                                     after2 == after + len_utf8(c)
                                 IN  IF c # Chu THEN Goes(after2, NextPass(f, "S1", after2))
                                     ELSE UnicodeEscaped(f,
                                              parse_string_hex(bytes, after2, 0, 0),
                                              hex_cursor(bytes, after2, 0))
    /\ ParserFrame

NextParser ==
    \/ Begin
    \/ FromStrStep
    \/ EatWhitespacePass
    \/ ParseValueStep
    \/ ParseArrayStep
    \/ ParseObjectStep
    \/ ParseNumberStep
    \/ ParseStringStep

\* The parser runs on its own: a step that can be taken is taken.
SpecParser == InitParser /\ [][NextParser]_vars /\ WF_vars(NextParser)

\* Run to the end, the parser returns what from_str returns.
ParserAgrees ==
    pc = "done" =>
        LET r == from_str(source)
        IN  IF r.ok THEN outcome.ok ELSE outcome = r

\* A loop that begins a new pass begins it beyond where the last one began.
PassAdvances ==
    \A i \in 1..Len(frames) :
        (i <= Len(frames') /\ frames'[i].fn = frames[i].fn
              /\ frames'[i].pass # frames[i].pass) =>
            frames'[i].begin > frames[i].begin

\* The index goes back only by one byte, in parse_number, onto the boundary
\* byte just read.
BackwardOnlyOnBoundary ==
    cursor' < cursor =>
        /\ cursor' = cursor - 1
        /\ Top.fn = "parse_number"
        /\ Top.at = "N2"
        /\ input[cursor' + 1] = Top.next
        /\ Top.next \in ScanBoundaries

\* C20: from_str terminates on every text: the index never exceeds the
\* length of the text, every pass of a scanning loop returns or ends with
\* the index beyond where the pass began, the one backward step is the
\* un-consume of the boundary byte of a number, and the parse comes to an
\* end.
C20_Termination ==
    /\ [](cursor <= Len(input) /\ (pc # "ready" => input = as_bytes(source)))
    /\ [][PassAdvances /\ BackwardOnlyOnBoundary]_vars
    /\ <>(pc = "done")

\* The second pass of the object's loop, with the array's number rewound
\* behind it.
C20_Witness ==
    /\ pc = "running"
    /\ source = ObjectDocument
    /\ Len(frames) = 2
    /\ frames[2].fn = "parse_object"
    /\ frames[2].pass = 2
    /\ frames[2].at = "O1"

(***************************************************************************)
(* SpecInvalid: Value::from_str on the texts that stop or go wrong at      *)
(* every place of the grammar, with white space of every kind before the   *)
(* place.                                                                  *)
(***************************************************************************)
\* Texts whose offending byte follows white space, one for each place that
\* reports InvalidCharacter.
MisplacedTexts ==
    { <<LBRACE, QUOTE, Cha, QUOTE, COLON, Ch1, SPACE, FF, Ch1>>,    \* {"a":1 \f 1
      <<LBRACE, QUOTE, Cha, QUOTE, TAB, FF, Chx>>,                  \* {"a"\t\f x
      <<LBRACE, QUOTE, Cha, QUOTE, COLON, LF, FF, Chx>>,            \* {"a":\n\f x
      <<LBRACE, CR, FF, Chx>>,                                      \* {\r\f x
      <<LBRACKET, Ch1, TAB, LF, CR, FF, Chx>>,                      \* [1\t\n\r\f x
      <<LBRACKET, FF, RBRACE>>,                                     \* [\f }
      <<FF, TAB, Chn, Chu, 108, Chx>>,                              \* \f\t nulx
      <<FF, Chf, Cha, 108, 115, SPACE>>,                            \* \f fals and a space
      <<LF, Cht, Chr, Chu, FF>>,                                    \* \n tru \f
      <<MINUS, Ch1, DOT, Ch1, DOT>>,                                \* -1.1.
      <<Ch1, Che, Che>>,                                            \* 1ee
      <<Ch1, TAB, FF, LF, CR, SPACE, QUOTE>>,                       \* 1 and a quote
      <<QUOTE, Cha, QUOTE, FF, QUOTE>>,                             \* "a"\f"
      <<CR, 233>> }                                                 \* \r and e acute

InvalidTexts ==
    StringsUpTo(ParseAlphabet, MaxSourceLen)
    \cup Prefixes(ObjectDocument) \cup Prefixes(ArrayDocument)
    \cup BrokenTexts \cup MisplacedTexts

InitInvalid ==
    /\ pc = "ready"
    /\ source \in InvalidTexts
    /\ value = Null
    /\ result = NoResult
    /\ rendered = <<>>
    /\ twin = <<>>
    /\ twinResult = NoResult
    /\ members = <<>>
    /\ string = <<>>
    /\ escaped = <<>>
    /\ unescaped = NoResult
    /\ receiver = Null
    /\ argument = Null
    /\ outcome = NoResult
    /\ measured = 0
    /\ input = <<>>
    /\ cursor = 0
    /\ frames = <<>>

NextInvalid == FromStr

SpecInvalid == InitInvalid /\ [][NextInvalid]_vars

\* The parse has failed with InvalidCharacter.
InvalidCharacterReported ==
    pc = "parsed" /\ ~result.ok /\ result.err = "InvalidCharacter"

\* C21: whenever the parse fails with InvalidCharacter(offset), the offset
\* is strictly less than the byte length of the text and the byte at the
\* offset is no whitespace byte (space, tab, line feed, carriage return, nor
\* the form feed the parser skips as well); InvalidCharacter is never
\* reported at or past the end of the text.
C21_InvalidCharacter ==
    InvalidCharacterReported =>
        /\ result.at >= 0
        /\ result.at < Len(as_bytes(source))
        /\ as_bytes(source)[result.at + 1] \notin {SPACE, TAB, LF, CR, FF}

\* InvalidCharacter at the last byte of a text, right after a form feed that
\* follows a whole value.
C21_Witness ==
    /\ InvalidCharacterReported
    /\ result.at = Len(as_bytes(source)) - 1
    /\ result.at >= 2
    /\ as_bytes(source)[result.at] = FF
    /\ as_bytes(source)[1] = Ch1
=============================================================================
